---- MODULE Spec2Model ----
(***************************************************************************)
(* Model of api/server.py of quick_latex: the process runner               *)
(* (run_command), the compilation dispatcher (run_docker_compilation,      *)
(* run_direct_latex_compilation) and the compile request handler           *)
(* (compile_document).                                                     *)
(*                                                                         *)
(* Texts (stdout, stderr, exception messages) are sequences of tokens;     *)
(* the empty text is << >>.  Paths are sequences of components whose       *)
(* first component is the root directory.  The filesystem is the set of    *)
(* existing paths.  A child process is launched (subprocess.run may        *)
(* raise), then either exits, or is abandoned by a timeout when one was    *)
(* passed to subprocess.run; a child may also never exit.                  *)
(***************************************************************************)
EXTENDS Integers, Sequences, FiniteSets, TLC

VARIABLES
    PROJECT_ROOT,   \* root directory the server was started from
    files,          \* filesystem: the set of existing paths
    pc,             \* per request: position in the code
    entry,          \* per request: "api" (compile_document) or "runner" (run_command called directly)
    data,           \* per request: JSON body of the POST /api/compile request
    cmd,            \* per request: argument of run_command
    loc,            \* per request: local variables of the dispatcher
    child,          \* per request: the child process being waited for
    trace,          \* per request: external invocations made so far, in order
    outcome,        \* per request: the record returned by run_command
    http,           \* per request: the response of compile_document
    served,         \* number of requests accepted so far
    call            \* the request being handled by one of the other handlers, and its response

vars == <<PROJECT_ROOT, files, pc, entry, data, cmd, loc, child, trace, outcome, http, served, call>>

\* ---------------------------------------------------------------- bounds
MaxCompiles == 2            \* requests accepted in one behaviour
MaxExit == 2                \* child exit codes range over 0..MaxExit
MaxOutLines == 2            \* lines of tool output given to the quality parser
MaxErrors == 5              \* error counts the tool output reports
MaxWarnings == 10           \* warning counts the tool output reports
MaxLogLines == 12           \* lines of the compiler log given to the log scraper
MaxNameLen == 4             \* characters of an uploaded file's name
MaxUploads == 1             \* uploads accepted in one behaviour

Req == {1, 2}               \* request slots (handling threads)
ExitCodes == 0..MaxExit      \* exit codes of pass 1 and of a generic command
LaterExitCodes == {0, 1}     \* exit codes of the steps after pass 1 (the code never reads them)

StepExitCodes(step) == IF step \in {"pass1", "generic"} THEN ExitCodes ELSE LaterExitCodes

\* ------------------------------------------------------ program constants
PASS_TIMEOUT == 180         \* timeout of compiler pass 1
GENERIC_TIMEOUT == 300      \* timeout of a generic command
LOG_CAP == 10               \* error_lines[:10]
ERRORS_LOG_CAP == 3         \* log_info["error_lines"][:3]
NO_TIMEOUT == 0             \* subprocess.run called without timeout (None)

COMPILE_SH == "scripts/compile.sh"
QUALITY_SH == "scripts/check-quality.sh"

\* ------------------------------------------------------------------ paths
Roots == {"/app", "/host"}
RelPaths == {"main.tex", "missing.tex", "ws.tex"}
\* file paths that leave the project tree: through "..", or absolute
EscapingPaths == {"../esc.tex", "/etc/abs.tex"}

\* Path.stem of the .tex names used
Stem(name) ==
    CASE name = "main.tex" -> "main"
      [] name = "missing.tex" -> "missing"
      [] name = "ws.tex" -> "ws"
      [] name = "esc.tex" -> "esc"
      [] name = "abs.tex" -> "abs"
      [] OTHER -> name

\* f"{base_name}.pdf" and friends
FileName(base_name, ext) == base_name \o "." \o ext

Parent(p) == SubSeq(p, 1, Len(p) - 1)
Name(p) == p[Len(p)]
Join(p, q) == p \o <<q>>

Exists(p) == p \in files

\* the components of a path given as a string
Parts(file_path) ==
    CASE file_path = "../esc.tex" -> <<"..", "esc.tex">>
      [] file_path = "/etc/abs.tex" -> <<"/etc", "abs.tex">>
      [] OTHER -> <<file_path>>

IsAbsolute(file_path) == file_path = "/etc/abs.tex"

\* PROJECT_ROOT / file_path: an absolute right operand replaces the left one,
\* ".." components are kept as they are
UnderRoot(file_path) ==
    IF IsAbsolute(file_path) THEN Parts(file_path) ELSE <<PROJECT_ROOT>> \o Parts(file_path)

\* work_dir.relative_to(PROJECT_ROOT) raises ValueError unless work_dir starts with PROJECT_ROOT
RelativeToRootRaises(p) == p[1] # PROJECT_ROOT

\* str(path)
RECURSIVE PathStr(_)
PathStr(p) ==
    IF Len(p) = 0 THEN ""
    ELSE IF Len(p) = 1 THEN p[1]
    ELSE p[1] \o "/" \o PathStr(Tail(p))

\* Path(str(tex_file).replace("/app", "/workspace"))
ReplaceApp(p) == [i \in 1..Len(p) |-> IF p[i] = "/app" THEN "/workspace" ELSE p[i]]

\* p.relative_to(Path('/app')) raises ValueError unless p is under /app
RelativeToAppRaises(p) == p[1] # "/app"

OutputDir(tex_file) == Join(Parent(tex_file), "output")
PdfFile(tex_file) == Join(OutputDir(tex_file), FileName(Stem(Name(tex_file)), "pdf"))
AuxFile(tex_file) == Join(OutputDir(tex_file), FileName(Stem(Name(tex_file)), "aux"))
LogFile(tex_file) == Join(OutputDir(tex_file), FileName(Stem(Name(tex_file)), "log"))

\* ------------------------------------------------------------------ texts
Range(q) == {q[i] : i \in 1..Len(q)}

\* "\n".join(lines)
RECURSIVE JoinLines(_)
JoinLines(lines) ==
    IF Len(lines) = 0 THEN << >>
    ELSE IF Len(lines) = 1 THEN lines[1]
    ELSE lines[1] \o <<"\n">> \o JoinLines(Tail(lines))

\* str(e) of the exceptions subprocess.run raises
TimeoutExpired == [type |-> "TimeoutExpired", text |-> <<"Command", "timed out", "after 180 seconds">>]
GenericTimeoutExpired == [type |-> "TimeoutExpired", text |-> <<"Command", "timed out", "after 300 seconds">>]
LaunchError == [type |-> "OSError", text |-> <<"No such file or directory: docker">>]
ValueError == [type |-> "ValueError", text |-> <<"path is not in the subpath of the root">>]

StdoutOf(step) == <<"stdout", step>>
StderrOf(step) == <<"stderr", step>>

NoOutcome == [set |-> FALSE, success |-> FALSE, returncode |-> 0, stdout |-> << >>, stderr |-> << >>]
Outcome(s, rc, out, err) == [set |-> TRUE, success |-> s, returncode |-> rc, stdout |-> out, stderr |-> err]

NoChild == [running |-> FALSE, step |-> "", timeout |-> NO_TIMEOUT, hangs |-> FALSE]
Running(step, timeout, hangs) == [running |-> TRUE, step |-> step, timeout |-> timeout, hangs |-> hangs]
NoData == [file_path |-> "", compiler |-> "lualatex", use_bibtex |-> FALSE, quick |-> FALSE,
           open_pdf |-> FALSE, watch |-> FALSE]
NoLoc == [tex_file |-> << >>, compiler |-> "lualatex", use_bibtex |-> FALSE, quick |-> FALSE,
          direct |-> FALSE, stdout_lines |-> << >>, stderr_lines |-> << >>]
\* log_info of the compile response: None, or the scraped error lines
NoLogInfo == [set |-> FALSE, error_lines |-> << >>]

\* errors=errors if errors else None
OrNone(errors) == [present |-> errors # << >>, list |-> errors]

NoHttp ==
    [status |-> 0, success |-> FALSE, raised |-> FALSE, errors |-> OrNone(<< >>),
     log_info |-> NoLogInfo, pdf_info |-> FALSE]

\* an answer of compile_document that is made without calling run_command
Refusal(status, raised, error) ==
    [status |-> status, success |-> FALSE, raised |-> raised, errors |-> OrNone(<<error>>),
     log_info |-> NoLogInfo, pdf_info |-> FALSE]
NoCall == [handler |-> "none"]

\* ------------------------------------------------------- request inputs
Compilers == {"lualatex", "pdflatex"}

\* JSON bodies of POST /api/compile
Bodies ==
    [file_path : {""} \cup RelPaths, compiler : Compilers, use_bibtex : BOOLEAN,
     quick : BOOLEAN, open_pdf : {FALSE}, watch : BOOLEAN]

\* compilers = ['lualatex', 'pdflatex', 'xelatex', 'platex']
SupportedCompilers == {"lualatex", "pdflatex", "xelatex", "platex"}

\* JSON bodies of POST /api/compile a client is free to send: file paths that
\* leave the project tree, and a compiler value that names no compiler
AnyBodies ==
    [file_path : {"main.tex"}, compiler : {"sh"}, use_bibtex : BOOLEAN,
     quick : {TRUE}, open_pdf : {FALSE}, watch : {FALSE}]
    \cup
    [file_path : EscapingPaths, compiler : {"lualatex"}, use_bibtex : BOOLEAN,
     quick : {TRUE}, open_pdf : {FALSE}, watch : {FALSE}]

\* arg.startswith("-")
StartsWithDash(arg) == arg \in {"-c", "-b", "-q", "-o"}

\* "compile.sh" in cmd[0]
IsCompileScript(c) == Len(c) > 0 /\ c[1] = COMPILE_SH

\* compile_document: the command line built from the request
BuildCmd(d) ==
    <<COMPILE_SH, d.file_path>>
    \o (IF d.compiler # "lualatex" THEN <<"-c", d.compiler>> ELSE << >>)
    \o (IF d.use_bibtex THEN <<"-b">> ELSE << >>)
    \o (IF d.quick THEN <<"-q">> ELSE << >>)
    \o (IF d.open_pdf /\ ~d.watch THEN <<"-o">> ELSE << >>)

\* commands run_command is called with by callers other than compile_document
DirectCmds ==
    {<<QUALITY_SH, "main.tex">>, << >>, <<COMPILE_SH>>, <<COMPILE_SH, "-b", "-q">>}
    \cup {BuildCmd([NoData EXCEPT !.file_path = f, !.use_bibtex = b, !.quick = q]) :
             f \in RelPaths, b \in BOOLEAN, q \in BOOLEAN}

\* run_docker_compilation: the argument loop (i is 1-based here, the script name is c[1])
RECURSIVE ParseArgs(_, _, _)
ParseArgs(c, i, acc) ==
    IF i > Len(c) THEN acc
    ELSE IF c[i] = "-c" /\ i + 1 <= Len(c)
            THEN ParseArgs(c, i + 2, [acc EXCEPT !.compiler = c[i + 1]])
    ELSE IF c[i] = "-b" THEN ParseArgs(c, i + 1, [acc EXCEPT !.use_bibtex = TRUE])
    ELSE IF c[i] = "-q" THEN ParseArgs(c, i + 1, [acc EXCEPT !.quick = TRUE])
    ELSE IF ~StartsWithDash(c[i]) THEN ParseArgs(c, i + 1, [acc EXCEPT !.file_path = c[i]])
    ELSE ParseArgs(c, i + 1, acc)

Parsed(c) ==
    ParseArgs(c, 2, [file_path |-> "", compiler |-> "lualatex", use_bibtex |-> FALSE, quick |-> FALSE])

\* the container recognised by its other mount, /workspace
is_in_docker_by_workspace == Exists(<<"/workspace">>) /\ PROJECT_ROOT = "/app"

\* is_in_docker = Path("/app").exists() and str(PROJECT_ROOT).startswith("/app")
is_in_docker == Exists(<<"/app">>) /\ PROJECT_ROOT = "/app"

\* ------------------------------------------------- dispatcher decisions
\* the existence check left out
FileMissingNever(file_path) == FALSE

\* compile_document: if not file_path.exists(): 404
FileMissing(file_path) == ~Exists(UnderRoot(file_path))

\* exit code 1 taken for a warning
Pass1AbortsAboveOne(rc) == rc > 1

\* the early return left out
Pass1NeverAborts(rc) == FALSE

\* if result1.returncode != 0: return
Pass1Aborts(rc) == rc # 0

\* the .aux probe left out
RunsBibtexAlways(tex_file) == TRUE

\* if use_bibtex: ... if aux_file.exists():
RunsBibtex(tex_file) == Exists(AuxFile(tex_file))

\* the quick flag ignored
RunsSecondPassNever(quick) == FALSE
RunsSecondPassAlways(quick) == TRUE

\* the quick flag inverted
RunsSecondPassInverted(quick) == quick

\* if not quick: (second compiler pass)
RunsSecondPass(quick) == ~quick

\* the artifact looked for next to the source instead of in output/
PdfExistsInWorkDir(tex_file) == Exists(Join(Parent(tex_file), FileName(Stem(Name(tex_file)), "pdf")))

PdfExistsNever(tex_file) == FALSE

\* success = pdf_file.exists()
PdfExists(tex_file) == Exists(PdfFile(tex_file))

\* the timeout= argument of each subprocess.run call
StepTimeout(step) ==
    CASE step = "pass1" -> PASS_TIMEOUT
      [] step = "generic" -> GENERIC_TIMEOUT
      [] OTHER -> NO_TIMEOUT

\* the program each step runs
Program(step) ==
    CASE step = "bibtex" -> "bibtex"
      [] step = "generic" -> "script"
      [] OTHER -> "compiler"

\* except Exception in run_docker_compilation / run_direct_latex_compilation
CompileException(direct, e) ==
    Outcome(FALSE, 1, << >>,
            <<IF direct THEN "Direct compilation error: " ELSE "Docker compilation error: ">> \o e.text)

\* only the timeout handled, any other exception left to propagate
RunnerExceptionTimeoutOnly(e) ==
    IF e.type = "TimeoutExpired"
        THEN Outcome(FALSE, -1, << >>, <<"Command", "timed out", "after 5 minutes">>)
        ELSE NoOutcome

\* except subprocess.TimeoutExpired / except Exception in run_command
RunnerException(e) ==
    IF e.type = "TimeoutExpired"
        THEN Outcome(FALSE, -1, << >>, <<"Command", "timed out", "after 5 minutes">>)
        ELSE Outcome(FALSE, -1, << >>, e.text)

\* the handler that catches an exception raised while step is in progress
Caught(r, step, e) ==
    IF step = "generic" THEN RunnerException(e) ELSE CompileException(loc[r].direct, e)

\* where control goes when run_command returns
AfterReturn(r) == IF entry[r] = "api" THEN "respond" ELSE "done"

\* after the BibTeX block
AfterBibtex(quick) == IF RunsSecondPass(quick) THEN "pass3" ELSE "pdf_check"

\* the final return of the pass sequence
FinalOutcome(success, l) ==
    Outcome(success, IF success THEN 0 ELSE 1,
            JoinLines(Append(l.stdout_lines,
                             <<"Compilation completed, PDF exists: ", IF success THEN "True" ELSE "False">>)),
            JoinLines(l.stderr_lines))

\* the pass-1 abort deciding by the artifact, as the final check does
AbortOutcomeByArtifact(rc, l) ==
    Outcome(PdfExists(l.tex_file), rc, JoinLines(l.stdout_lines), JoinLines(l.stderr_lines))

\* the early return after a failed pass 1
AbortOutcome(rc, l) == Outcome(FALSE, rc, JoinLines(l.stdout_lines), JoinLines(l.stderr_lines))

GenericOutcomeAlwaysSucceeds(rc, out, err) == Outcome(TRUE, rc, out, err)

\* return of the generic branch of run_command
GenericOutcome(rc, out, err) == Outcome(rc = 0, rc, out, err)

FileNotFound(file_path) == Outcome(FALSE, 1, << >>, <<"File not found: ", file_path>>)
NoFilePath == Outcome(FALSE, 1, << >>, <<"No file path specified">>)

Banner(direct) ==
    IF direct THEN <<"Compilation via latex-engine container">> ELSE <<"Compilation via Docker">>

\* files a compiler pass may write or remove
Artifacts(tex_file) == {PdfFile(tex_file), AuxFile(tex_file), LogFile(tex_file)}

\* str(p.relative_to(root)) for a path p under root
RelStr(p) == IF Len(p) <= 1 THEN "." ELSE PathStr(Tail(p))

\* docker_cmd (run_docker_compilation) and compile_cmd (run_direct_latex_compilation)
CompileArgv(l) ==
    IF l.direct
       THEN <<"docker", "exec", "api-latex-engine-1", l.compiler,
              "-interaction=nonstopmode", "-halt-on-error",
              "-output-directory=/workspace/" \o RelStr(OutputDir(l.tex_file)),
              "/workspace/" \o RelStr(l.tex_file)>>
       ELSE <<"docker", "compose", "run", "--rm",
              "-w", "/workspace/" \o RelStr(Parent(l.tex_file)),
              "latex", l.compiler,
              "-interaction=nonstopmode", "-halt-on-error", "-output-directory=output",
              Name(l.tex_file)>>

\* bibtex_docker_cmd (run_docker_compilation) and bibtex_cmd (run_direct_latex_compilation)
BibtexArgv(l) ==
    IF l.direct
       THEN <<"docker", "exec", "api-latex-engine-1", "bibtex",
              "/workspace/" \o RelStr(OutputDir(l.tex_file)) \o "/" \o Stem(Name(l.tex_file))>>
       ELSE <<"docker", "compose", "run", "--rm",
              "-w", "/workspace/" \o RelStr(OutputDir(l.tex_file)),
              "latex", "bibtex", Stem(Name(l.tex_file))>>

\* the argument list of the subprocess.run call of a step
StepArgv(r, step) ==
    CASE step = "generic" -> cmd[r]
      [] step = "bibtex" -> BibtexArgv(loc[r])
      [] OTHER -> CompileArgv(loc[r])

TraceEntry(step, status, argv) ==
    [step |-> step, prog |-> Program(step), status |-> status, rc |-> 0, timeout |-> StepTimeout(step),
     aux_after |-> FALSE, pdf_before |-> FALSE, pdf_after |-> FALSE, argv |-> argv]

LastUpdated(t, status, rc, aux_after, pdf_after) ==
    [t EXCEPT ![Len(t)] = [@ EXCEPT !.status = status, !.rc = rc, !.aux_after = aux_after,
                                      !.pdf_after = pdf_after]]

\* ------------------------------------------------------ text functions
SPACE == " "

\* text.split("\n")
RECURSIVE SplitLines(_)
SplitLines(text) ==
    IF "\n" \notin Range(text) THEN <<text>>
    ELSE LET k == CHOOSE i \in 1..Len(text) : text[i] = "\n" /\ \A j \in 1..(i - 1) : text[j] # "\n"
         IN  <<SubSeq(text, 1, k - 1)>> \o SplitLines(SubSeq(text, k + 1, Len(text)))

\* s.strip()
RECURSIVE Strip(_)
Strip(line) ==
    IF Len(line) = 0 THEN line
    ELSE IF line[1] = SPACE THEN Strip(Tail(line))
    ELSE IF line[Len(line)] = SPACE THEN Strip(SubSeq(line, 1, Len(line) - 1))
    ELSE line

\* ----------------------------------------------------- log error lines
\* s.lower(), token by token
LowerToken(tok) == IF tok \in {"Error", "ERROR"} THEN "error" ELSE tok
Lower(line) == [i \in 1..Len(line) |-> LowerToken(line[i])]

\* line.startswith('!') or 'Error' in line or 'error' in line.lower()
Matches(line) ==
    \/ Len(line) > 0 /\ line[1] = "!"
    \/ "Error" \in Range(line)
    \/ "error" \in Range(Lower(line))

Min(a, b) == IF a < b THEN a ELSE b

\* the loop over log_content.split('\n') followed by error_lines[:10]
ErrorLinesOf(lines) ==
    LET matched == SelectSeq(lines, Matches)
        error_lines == [i \in 1..Len(matched) |-> Strip(matched[i])]
    IN  SubSeq(error_lines, 1, Min(LOG_CAP, Len(error_lines)))

\* the cap applied to the log before the filter
ErrorLinesCapFirst(log_content) ==
    ErrorLinesOf(SubSeq(SplitLines(log_content), 1, Min(LOG_CAP, Len(SplitLines(log_content)))))

ErrorLines(log_content) == ErrorLinesOf(SplitLines(log_content))

\* line i of a log: a matching line of a form that depends on i, or a line
\* that does not match
MatchingLine(i) ==
    CASE i % 4 = 1 -> <<"!", "LaTeX", ToString(i)>>
      [] i % 4 = 2 -> <<"l.", ToString(i), "Error">>
      [] i % 4 = 3 -> <<SPACE, "error", ToString(i), SPACE>>
      [] OTHER     -> <<"FATAL", "ERROR", ToString(i)>>
OtherLine(i) ==
    IF i % 2 = 1 THEN <<SPACE, "!", ToString(i)>> ELSE <<"Overfull", ToString(i)>>

\* ------------------------------------------------- the compile response
\* log_info after a read of the log that succeeded
LogInfo(log_content) == [set |-> TRUE, error_lines |-> ErrorLines(log_content)]

UNKNOWN_ERROR == <<"Compilation failed with unknown error">>

\* the first n elements of q: q[:n]
Take(q, n) == SubSeq(q, 1, Min(n, Len(q)))

\* every scraped line is listed
ErrorsAllLogLines(result, log_info) ==
    IF result.success THEN << >>
    ELSE LET stderr == IF result.stderr # << >> THEN <<(<<"STDERR: ">> \o result.stderr)>> ELSE << >>
             log == [i \in 1..Len(log_info.error_lines) |-> <<"LOG: ">> \o log_info.error_lines[i]]
         IN  IF stderr \o log = << >> THEN <<UNKNOWN_ERROR>> ELSE stderr \o log

\* errors = []; if not result["success"]: ... (the error list of the response)
Errors(result, log_info) ==
    IF result.success THEN << >>
    ELSE LET stderr == IF result.stderr # << >> THEN <<(<<"STDERR: ">> \o result.stderr)>> ELSE << >>
             lines == Take(log_info.error_lines, ERRORS_LOG_CAP)
             log == IF log_info.set /\ log_info.error_lines # << >>
                       THEN [i \in 1..Len(lines) |-> <<"LOG: ">> \o lines[i]]
                       ELSE << >>
         IN  IF stderr \o log = << >> THEN <<UNKNOWN_ERROR>> ELSE stderr \o log

\* logs a compiler may leave: without a matching line, with one, and with
\* more matching lines than the response lists
CompileLogs ==
    {JoinLines(<<OtherLine(1), OtherLine(2)>>),
     JoinLines(<<OtherLine(2), MatchingLine(3)>>),
     JoinLines(<<MatchingLine(1), OtherLine(2), MatchingLine(3), MatchingLine(2), MatchingLine(4)>>)}

\* what a successful read of each of these logs gives
CompileLogInfos == {LogInfo(log_content) : log_content \in CompileLogs}

\* ---------------------------------------------------------------- Init
InitOn(active, outside) ==
    /\ PROJECT_ROOT \in Roots
    /\ \E out \in BOOLEAN, ws \in BOOLEAN :
          files = {<<PROJECT_ROOT>>, <<PROJECT_ROOT, "main.tex">>}
                  \cup (IF out THEN {<<PROJECT_ROOT, "output">>} ELSE {})
                  \cup (IF ws /\ PROJECT_ROOT = "/app"
                           THEN {<<"/workspace">>, <<"/workspace", "ws.tex">>} ELSE {})
                  \cup (IF outside
                           THEN {<<PROJECT_ROOT, "..">>, <<PROJECT_ROOT, "..", "esc.tex">>,
                                 <<"/etc">>, <<"/etc", "abs.tex">>}
                           ELSE {})
    /\ pc = [r \in Req |-> IF r \in active THEN "idle" ELSE "off"]
    /\ entry = [r \in Req |-> "api"]
    /\ data = [r \in Req |-> NoData]
    /\ cmd = [r \in Req |-> << >>]
    /\ loc = [r \in Req |-> NoLoc]
    /\ child = [r \in Req |-> NoChild]
    /\ trace = [r \in Req |-> << >>]
    /\ outcome = [r \in Req |-> NoOutcome]
    /\ http = [r \in Req |-> NoHttp]
    /\ served = 0
    /\ call = NoCall

InitWith(active) == InitOn(active, FALSE)

Init == InitWith({1})

\* one deployment: the server on the host, nothing compiled yet
InitHost == Init /\ PROJECT_ROOT = "/host" /\ <<PROJECT_ROOT, "output">> \notin files

\* a deployment in which files exist outside the project tree
InitAnyInput == InitOn({1}, TRUE)

\* -------------------------------------------------------------- actions
\* what one request leaves alone
Reset(r) ==
    /\ loc' = [loc EXCEPT ![r] = NoLoc]
    /\ child' = [child EXCEPT ![r] = NoChild]
    /\ trace' = [trace EXCEPT ![r] = << >>]
    /\ outcome' = [outcome EXCEPT ![r] = NoOutcome]
    /\ http' = [http EXCEPT ![r] = NoHttp]

\* POST /api/compile: validation and command construction, up to the call of run_command
compile_document_from(r, bodies) ==
    /\ pc[r] = "idle"
    /\ call = NoCall
    /\ served < MaxCompiles
    /\ \/ \E d \in bodies :
             /\ data' = [data EXCEPT ![r] = d]
             /\ IF d.file_path = ""
                   THEN /\ http' = [http EXCEPT ![r] =
                                   Refusal(400, FALSE, <<"No file_path provided in request">>)]
                        /\ pc' = [pc EXCEPT ![r] = "done"]
                        /\ cmd' = [cmd EXCEPT ![r] = << >>]
                ELSE IF FileMissing(d.file_path)
                   THEN /\ http' = [http EXCEPT ![r] =
                                   Refusal(404, FALSE, <<"File does not exist: ", d.file_path>>)]
                        /\ pc' = [pc EXCEPT ![r] = "done"]
                        /\ cmd' = [cmd EXCEPT ![r] = << >>]
                ELSE IF d.watch
                   THEN /\ http' = [http EXCEPT ![r] =
                                   Refusal(400, FALSE, <<"Use the watch endpoint for file monitoring">>)]
                        /\ pc' = [pc EXCEPT ![r] = "done"]
                        /\ cmd' = [cmd EXCEPT ![r] = BuildCmd(d)]
                ELSE /\ http' = [http EXCEPT ![r] = NoHttp]
                     /\ pc' = [pc EXCEPT ![r] = "run_command"]
                     /\ cmd' = [cmd EXCEPT ![r] = BuildCmd(d)]
       \/ \* the body is not JSON: request.get_json() raises inside the try
          /\ data' = [data EXCEPT ![r] = NoData]
          /\ http' = [http EXCEPT ![r] = Refusal(500, TRUE, <<"Failed to decode JSON object">>)]
          /\ pc' = [pc EXCEPT ![r] = "done"]
          /\ cmd' = [cmd EXCEPT ![r] = << >>]
    /\ entry' = [entry EXCEPT ![r] = "api"]
    /\ served' = served + 1
    /\ loc' = [loc EXCEPT ![r] = NoLoc]
    /\ child' = [child EXCEPT ![r] = NoChild]
    /\ trace' = [trace EXCEPT ![r] = << >>]
    /\ outcome' = [outcome EXCEPT ![r] = NoOutcome]
    /\ UNCHANGED <<call, PROJECT_ROOT, files>>

compile_document(r) == compile_document_from(r, Bodies)

\* run_command called by another caller (quality_check, manage_templates, a test)
call_run_command(r) ==
    /\ pc[r] = "idle"
    /\ served < MaxCompiles
    /\ \E c \in DirectCmds : cmd' = [cmd EXCEPT ![r] = c]
    /\ entry' = [entry EXCEPT ![r] = "runner"]
    /\ data' = [data EXCEPT ![r] = NoData]
    /\ pc' = [pc EXCEPT ![r] = "run_command"]
    /\ served' = served + 1
    /\ Reset(r)
    /\ UNCHANGED <<call, PROJECT_ROOT, files>>

\* run_command returns o
Return(r, o) ==
    /\ outcome' = [outcome EXCEPT ![r] = o]
    /\ pc' = [pc EXCEPT ![r] = AfterReturn(r)]

\* run_command, and run_docker_compilation up to the first subprocess.run
run_command(r) ==
    /\ pc[r] = "run_command"
    /\ IF ~IsCompileScript(cmd[r])
          THEN \* generic branch: subprocess.run(cmd, timeout=300)
               /\ pc' = [pc EXCEPT ![r] = "generic"]
               /\ UNCHANGED <<files, loc, outcome, trace>>
       ELSE LET a == Parsed(cmd[r])
                tex_file == UnderRoot(a.file_path)
                workspace_path == ReplaceApp(tex_file)
                l(t, direct) == [tex_file |-> t, compiler |-> a.compiler, use_bibtex |-> a.use_bibtex,
                                 quick |-> a.quick, direct |-> direct,
                                 stdout_lines |-> <<Banner(direct)>>, stderr_lines |-> << >>]
            IN  IF a.file_path = ""
                   THEN Return(r, NoFilePath) /\ UNCHANGED <<files, loc, trace>>
                ELSE IF is_in_docker
                   THEN IF ~Exists(tex_file) /\ ~Exists(workspace_path)
                           THEN Return(r, FileNotFound(a.file_path)) /\ UNCHANGED <<files, loc, trace>>
                        ELSE LET t == IF Exists(tex_file) THEN tex_file ELSE workspace_path
                             IN  \* run_direct_latex_compilation: mkdir, then the command line
                                 /\ files' = files \cup {OutputDir(t)}
                                 /\ trace' = [trace EXCEPT ![r] = << >>]
                                 /\ IF RelativeToAppRaises(OutputDir(t))
                                       THEN /\ Return(r, CompileException(TRUE, ValueError))
                                            /\ loc' = [loc EXCEPT ![r] = [l(t, TRUE) EXCEPT !.stdout_lines = << >>]]
                                       ELSE /\ loc' = [loc EXCEPT ![r] = l(t, TRUE)]
                                            /\ pc' = [pc EXCEPT ![r] = "pass1"]
                                            /\ UNCHANGED outcome
                ELSE IF ~Exists(tex_file)
                   THEN Return(r, FileNotFound(a.file_path)) /\ UNCHANGED <<files, loc, trace>>
                ELSE /\ files' = files \cup {OutputDir(tex_file)}
                     /\ UNCHANGED trace
                     /\ IF RelativeToRootRaises(Parent(tex_file))
                           THEN \* docker_cmd cannot be built
                                /\ Return(r, CompileException(FALSE, ValueError))
                                /\ loc' = [loc EXCEPT ![r] = [l(tex_file, FALSE) EXCEPT !.stdout_lines = << >>]]
                           ELSE /\ loc' = [loc EXCEPT ![r] = l(tex_file, FALSE)]
                                /\ pc' = [pc EXCEPT ![r] = "pass1"]
                                /\ UNCHANGED outcome
    /\ UNCHANGED <<call, PROJECT_ROOT, entry, data, cmd, child, http, served>>

StepPcs == {"pass1", "bibtex", "pass2", "pass3", "generic"}

\* the record of the call of subprocess.run request r is about to make, with
\* whether the artifact is on disk at the call
Started(r, status) ==
    [TraceEntry(pc[r], status, StepArgv(r, pc[r])) EXCEPT
        !.pdf_before = pc[r] # "generic" /\ PdfFile(loc[r].tex_file) \in files]

\* subprocess.run: the child is started, or starting it raises
Launch(r) ==
    /\ pc[r] \in StepPcs
    /\ \/ /\ trace' = [trace EXCEPT ![r] = Append(@, Started(r, "raised"))]
          /\ Return(r, Caught(r, pc[r], LaunchError))
          /\ UNCHANGED child
       \/ /\ Len(cmd[r]) > 0      \* an empty argument list cannot be started
          /\ trace' = [trace EXCEPT ![r] = Append(@, Started(r, "running"))]
          /\ \E hangs \in BOOLEAN :
                child' = [child EXCEPT ![r] = Running(pc[r], StepTimeout(pc[r]), hangs)]
          /\ pc' = [pc EXCEPT ![r] = "wait"]
          /\ UNCHANGED outcome
    /\ UNCHANGED <<call, PROJECT_ROOT, files, entry, data, cmd, loc, http, served>>

\* what a child may have done to the filesystem when it exits or is abandoned
Effects(r, step) ==
    IF Program(step) = "compiler"
       THEN \E S \in SUBSET Artifacts(loc[r].tex_file) :
               files' = (files \ Artifacts(loc[r].tex_file)) \cup S
       ELSE files' = files

\* the child exits: the code after the subprocess.run call, up to the next
\* subprocess.run, filesystem probe or return
ChildExit(r) ==
    /\ pc[r] = "wait"
    /\ child[r].running /\ ~child[r].hangs
    /\ LET step == child[r].step IN
       \E rc \in StepExitCodes(step), err \in {<< >>, StderrOf(step)} :
          /\ Effects(r, step)
          /\ child' = [child EXCEPT ![r] = NoChild]
          /\ trace' = [trace EXCEPT ![r] =
                LastUpdated(@, "exited", rc, step = "pass1" /\ AuxFile(loc[r].tex_file) \in files',
                            step # "generic" /\ PdfFile(loc[r].tex_file) \in files')]
          /\ LET out == IF step = "bibtex" THEN <<"BibTeX: ">> \o StdoutOf(step) ELSE StdoutOf(step)
                 l == [loc[r] EXCEPT !.stdout_lines = Append(@, out),
                                     !.stderr_lines = IF err # << >> THEN Append(@, err) ELSE @]
             IN  IF step = "generic"
                    THEN Return(r, GenericOutcome(rc, StdoutOf(step), err)) /\ UNCHANGED loc
                 ELSE /\ loc' = [loc EXCEPT ![r] = l]
                      /\ IF step = "pass1" /\ Pass1Aborts(rc)
                            THEN Return(r, AbortOutcome(rc, l))
                         ELSE /\ UNCHANGED outcome
                              /\ pc' = [pc EXCEPT ![r] =
                                    CASE step = "pass1" ->
                                            IF l.use_bibtex THEN "aux_check" ELSE AfterBibtex(l.quick)
                                      [] step = "bibtex" -> "pass2"
                                      [] step = "pass2" -> AfterBibtex(l.quick)
                                      [] OTHER -> "pdf_check"]
    /\ UNCHANGED <<call, PROJECT_ROOT, entry, data, cmd, http, served>>

\* subprocess.run gives up waiting: TimeoutExpired is raised
Timeout(r) ==
    /\ pc[r] = "wait"
    /\ child[r].running
    /\ child[r].timeout # NO_TIMEOUT
    /\ Effects(r, child[r].step)
    /\ child' = [child EXCEPT ![r] = NoChild]
    /\ trace' = [trace EXCEPT ![r] =
          LastUpdated(@, "timeout", 0, child[r].step = "pass1" /\ AuxFile(loc[r].tex_file) \in files',
                      child[r].step # "generic" /\ PdfFile(loc[r].tex_file) \in files')]
    /\ Return(r, Caught(r, child[r].step,
                        IF child[r].step = "generic" THEN GenericTimeoutExpired ELSE TimeoutExpired))
    /\ UNCHANGED <<call, PROJECT_ROOT, entry, data, cmd, loc, http, served>>

\* if use_bibtex: aux_file = ...; if aux_file.exists():
AuxCheck(r) ==
    /\ pc[r] = "aux_check"
    /\ pc' = [pc EXCEPT ![r] = IF RunsBibtex(loc[r].tex_file) THEN "bibtex" ELSE AfterBibtex(loc[r].quick)]
    /\ UNCHANGED <<call, PROJECT_ROOT, files, entry, data, cmd, loc, child, trace, outcome, http, served>>

\* pdf_file = ...; success = pdf_file.exists(); return {...}
PdfCheck(r) ==
    /\ pc[r] = "pdf_check"
    /\ Return(r, FinalOutcome(PdfExists(loc[r].tex_file), loc[r]))
    /\ UNCHANGED <<call, PROJECT_ROOT, files, entry, data, cmd, loc, child, trace, http, served>>

\* compile_document after run_command returned: the response envelope
Respond(r) ==
    /\ pc[r] = "respond"
    /\ LET result == outcome[r]
           file_path == UnderRoot(data[r].file_path)
           answer(log_info) ==
               [status |-> 200, success |-> result.success, raised |-> FALSE,
                errors |-> OrNone(Errors(result, log_info)),
                log_info |-> log_info, pdf_info |-> Exists(PdfFile(file_path))]
       IN  IF Exists(PdfFile(file_path)) /\ RelativeToRootRaises(PdfFile(file_path))
              THEN \* pdf_path.relative_to(PROJECT_ROOT) raises: the outer except answers
                   http' = [http EXCEPT ![r] = Refusal(500, TRUE, ValueError.text)]
              ELSE \/ \* no log, a compile that succeeded, or reading the log raises
                      http' = [http EXCEPT ![r] = answer(NoLogInfo)]
                   \/ \* the log of a failed compile is read
                      /\ Exists(LogFile(file_path)) /\ ~result.success
                      /\ ~RelativeToRootRaises(LogFile(file_path))
                      /\ \E log_info \in CompileLogInfos :
                            http' = [http EXCEPT ![r] = answer(log_info)]
    /\ pc' = [pc EXCEPT ![r] = "done"]
    /\ UNCHANGED <<call, PROJECT_ROOT, files, entry, data, cmd, loc, child, trace, outcome, served>>

\* the handling thread takes the next request
NextRequest(r) ==
    /\ pc[r] = "done"
    /\ served < MaxCompiles
    /\ pc' = [pc EXCEPT ![r] = "idle"]
    /\ entry' = [entry EXCEPT ![r] = "api"]
    /\ data' = [data EXCEPT ![r] = NoData]
    /\ cmd' = [cmd EXCEPT ![r] = << >>]
    /\ Reset(r)
    /\ UNCHANGED <<call, PROJECT_ROOT, files, served>>

Next ==
    \E r \in Req :
        \/ compile_document(r)
        \/ call_run_command(r)
        \/ run_command(r)
        \/ Launch(r)
        \/ ChildExit(r)
        \/ Timeout(r)
        \/ AuxCheck(r)
        \/ PdfCheck(r)
        \/ Respond(r)
        \/ NextRequest(r)

Spec == Init /\ [][Next]_vars

\* every enabled step of the program is eventually taken; a child that never
\* exits enables no step of its own
FairSpec == Spec /\ WF_vars(Next)

\* the compile endpoint with clients that send any body
NextAnyInput ==
    \E r \in Req :
        \/ compile_document_from(r, AnyBodies)
        \/ run_command(r)
        \/ Launch(r)
        \/ ChildExit(r)
        \/ Timeout(r)
        \/ AuxCheck(r)
        \/ PdfCheck(r)
        \/ Respond(r)
        \/ NextRequest(r)

SpecAnyInput == InitAnyInput /\ [][NextAnyInput]_vars

\* ----------------------------------------------------------- type check
TypeOK ==
    /\ PROJECT_ROOT \in Roots
    /\ \A r \in Req :
          /\ pc[r] \in {"off", "idle", "run_command", "wait", "aux_check", "pdf_check", "respond", "done"}
                       \cup StepPcs
          /\ entry[r] \in {"api", "runner"}
          /\ outcome[r].set \in BOOLEAN
          /\ child[r].running \in BOOLEAN
    /\ served \in 0..MaxCompiles

\* ------------------------------------------------------- observations
\* the dispatcher accepted the request: a compile command whose file exists
\* under the project root (the pass sequence is entered)
Accepted(r) ==
    /\ pc[r] \notin {"off", "idle", "run_command"}
    /\ IsCompileScript(cmd[r])
    /\ loc[r].tex_file = UnderRoot(Parsed(cmd[r]).file_path)

\* run_command was called and has returned
Returned(r) == outcome[r].set

CompilerPasses(r) == Cardinality({i \in 1..Len(trace[r]) : trace[r][i].prog = "compiler"})
BibtexPasses(r) == Cardinality({i \in 1..Len(trace[r]) : trace[r][i].prog = "bibtex"})

\* step i of request r ran to its exit
Exited(r, i) == trace[r][i].status = "exited"
\* step i of request r raised inside subprocess.run
Raised(r, i) == trace[r][i].status \in {"raised", "timeout"}
AllExited(r) == \A i \in 1..Len(trace[r]) : Exited(r, i)

\* ------------------------------------------------------------------ C1
\* C1 (as stated): for a valid compile request whose artifact exists when
\* the outcome is returned, the outcome reports success, whichever pass was
\* the last one executed and whatever its exit code.
C1_SuccessIffArtifact ==
    \A r \in Req :
        (Accepted(r) /\ Returned(r) /\ Len(trace[r]) >= 1 /\ Exited(r, Len(trace[r]))
             /\ Exists(PdfFile(loc[r].tex_file)))
            => outcome[r].success

\* C1 (amended): when pass 1 exited 0 and no step raised, the outcome's
\* success flag equals the existence of the artifact, whatever the exit
\* codes of the bibliography pass and of the later compiler passes.
C1_SuccessIffArtifactAfterPass1 ==
    \A r \in Req :
        (Accepted(r) /\ Returned(r) /\ Len(trace[r]) >= 1 /\ AllExited(r) /\ trace[r][1].rc = 0)
            => /\ outcome[r].success = Exists(PdfFile(loc[r].tex_file))
               /\ outcome[r].returncode = (IF Exists(PdfFile(loc[r].tex_file)) THEN 0 ELSE 1)

\* a request succeeded although its last pass exited non-zero
C1_Witness ==
    \E r \in Req :
        /\ Accepted(r) /\ Returned(r) /\ AllExited(r)
        /\ Len(trace[r]) >= 2
        /\ trace[r][Len(trace[r])].rc # 0
        /\ Exists(PdfFile(loc[r].tex_file))
        /\ outcome[r].success

\* ------------------------------------------------------------------ C2
\* C2: when pass 1 exits non-zero no other step is invoked and the outcome
\* is returned at once with success false and pass 1's exit code, for every
\* use_bibtex and quick.
C2_Pass1FailureAborts ==
    \A r \in Req :
        (Accepted(r) /\ Len(trace[r]) >= 1 /\ Exited(r, 1) /\ trace[r][1].rc # 0)
            => /\ Len(trace[r]) = 1
               /\ pc[r] \in {"respond", "done"}
               /\ Returned(r)
               /\ ~outcome[r].success
               /\ outcome[r].returncode = trace[r][1].rc

C2_Witness ==
    \E r \in Req :
        /\ Accepted(r) /\ Returned(r)
        /\ loc[r].use_bibtex /\ ~loc[r].quick
        /\ Len(trace[r]) = 1 /\ Exited(r, 1) /\ trace[r][1].rc = MaxExit
        /\ trace[r][1].aux_after
        /\ outcome[r].returncode = MaxExit

\* ------------------------------------------------------------------ C3
\* C3: a valid request with quick and without use_bibtex invokes exactly one
\* compiler pass and no bibliography pass before its outcome is returned.
C3_QuickSinglePass ==
    \A r \in Req :
        (Accepted(r) /\ loc[r].quick /\ ~loc[r].use_bibtex)
            => /\ CompilerPasses(r) <= 1
               /\ BibtexPasses(r) = 0
               /\ (Returned(r) => CompilerPasses(r) = 1)

C3_Witness ==
    \E r \in Req :
        /\ Accepted(r) /\ Returned(r)
        /\ loc[r].quick /\ ~loc[r].use_bibtex
        /\ Exited(r, 1) /\ trace[r][1].rc = 0 /\ trace[r][1].aux_after
        /\ CompilerPasses(r) = 1

\* ------------------------------------------------------------------ C4
\* C4 (as stated): a valid request without quick has invoked at least two
\* compiler passes when its outcome is returned.
C4_TwoPasses ==
    \A r \in Req :
        (Accepted(r) /\ ~loc[r].quick /\ Returned(r)) => CompilerPasses(r) >= 2

\* C4 (amended): a valid request without quick has invoked at least two
\* compiler passes when its outcome is returned, provided pass 1 exited 0
\* and the bibliography tool, if it was run, returned; otherwise (pass 1
\* exited non-zero, timed out or could not be started, or the bibliography
\* tool could not be started) exactly one compiler pass was invoked.
C4_TwoPassesAfterPass1 ==
    \A r \in Req :
        (Accepted(r) /\ ~loc[r].quick /\ Returned(r))
            => IF /\ Exited(r, 1) /\ trace[r][1].rc = 0
                  /\ \A i \in 1..Len(trace[r]) : trace[r][i].prog = "bibtex" => Exited(r, i)
                  THEN CompilerPasses(r) >= 2
                  ELSE CompilerPasses(r) = 1

C4_Witness ==
    \E r \in Req :
        /\ Accepted(r) /\ Returned(r) /\ ~loc[r].quick /\ ~loc[r].use_bibtex
        /\ Exited(r, 1) /\ trace[r][1].rc = 0
        /\ CompilerPasses(r) = 2

\* ------------------------------------------------------------------ C5
\* C5: the bibliography tool is invoked at most once; it is invoked exactly
\* when use_bibtex is set, pass 1 exited 0 and the .aux file exists after
\* pass 1; it is the second invocation, and the invocation after it is the
\* extra compiler pass, which is made whenever the tool returns.
C5_BibtexPass ==
    \A r \in Req :
        Accepted(r) =>
            /\ BibtexPasses(r) <= 1
            /\ \A i \in 1..Len(trace[r]) :
                  trace[r][i].prog = "bibtex"
                      => /\ i = 2
                         /\ loc[r].use_bibtex
                         /\ trace[r][1].prog = "compiler" /\ Exited(r, 1) /\ trace[r][1].rc = 0
                         /\ trace[r][1].aux_after
                         /\ Len(trace[r]) >= 3 => trace[r][3].step = "pass2"
                         /\ (Exited(r, i) /\ Returned(r)) => Len(trace[r]) >= 3
            /\ Returned(r) =>
                  (BibtexPasses(r) = 1 <=>
                      /\ loc[r].use_bibtex
                      /\ Len(trace[r]) >= 1 /\ Exited(r, 1) /\ trace[r][1].rc = 0
                      /\ trace[r][1].aux_after)

C5_Witness ==
    \E r \in Req :
        /\ Accepted(r) /\ Returned(r) /\ loc[r].quick
        /\ Len(trace[r]) = 3
        /\ trace[r][2].prog = "bibtex" /\ trace[r][2].rc # 0
        /\ trace[r][3].step = "pass2"

\* ------------------------------------------------------------------ C6
\* C6 (as stated): a step that exits non-zero while no artifact exists is
\* fatal: no later step is invoked and the outcome reports failure.
C6_AnyFailureFatal ==
    \A r \in Req :
        Accepted(r) =>
            \A i \in 1..Len(trace[r]) :
                (Exited(r, i) /\ trace[r][i].rc # 0 /\ ~trace[r][i].pdf_after)
                    => /\ Len(trace[r]) = i
                       /\ Returned(r) => ~outcome[r].success

\* C6 (amended): pass 1 exiting non-zero is fatal, and so is any step that
\* raises (it cannot be started, or pass 1 times out): no later step is
\* invoked and the outcome reports failure.  A non-zero exit of the
\* bibliography pass or of a later compiler pass is ignored: the remaining
\* steps are invoked, and when all of them exit the outcome reports the
\* existence of the artifact.
C6_FatalSteps ==
    \A r \in Req :
        Accepted(r) =>
            \A i \in 1..Len(trace[r]) :
                /\ ((i = 1 /\ Exited(r, i) /\ trace[r][i].rc # 0) \/ Raised(r, i))
                      => /\ Len(trace[r]) = i
                         /\ Returned(r) /\ ~outcome[r].success
                /\ (i > 1 /\ Exited(r, i) /\ trace[r][i].rc # 0)
                      => /\ trace[r][i].step = "bibtex"
                            => (pc[r] = "pass2" \/ Len(trace[r]) > i)
                         /\ (trace[r][i].step = "pass2" /\ ~loc[r].quick)
                            => (pc[r] = "pass3" \/ Len(trace[r]) > i)
                         /\ (Returned(r) /\ AllExited(r))
                            => outcome[r].success = Exists(PdfFile(loc[r].tex_file))

\* the bibliography pass failed with no artifact on disk, the extra pass ran
\* and the request succeeded
C6_Witness ==
    \E r \in Req :
        /\ Accepted(r) /\ Returned(r)
        /\ Len(trace[r]) >= 3
        /\ trace[r][2].step = "bibtex" /\ trace[r][2].rc # 0 /\ ~trace[r][2].pdf_after
        /\ outcome[r].success

\* ------------------------------------------------------------------ C7
\* C7: whenever a command started through run_command times out, the
\* returned outcome has success false, return code -1 and a timed-out
\* message in stderr.
C7_TimeoutOutcome ==
    \A r \in Req :
        (Len(trace[r]) >= 1 /\ trace[r][Len(trace[r])].status = "timeout")
            => /\ Returned(r)
               /\ ~outcome[r].success
               /\ outcome[r].returncode = -1
               /\ "timed out" \in Range(outcome[r].stderr)

\* ------------------------------------------------------------------ C8
\* run_command was called for request r and control is back at its caller
CalledBack(r) ==
    \/ pc[r] = "respond"
    \/ pc[r] = "done" /\ (entry[r] = "runner" \/ http[r].status = 200)

\* C8: run_command always hands an outcome record to its caller; when the
\* child could not be started, timed out, or the dispatcher raised, the
\* record has success false and the failure text in stderr.
C8_NeverRaises ==
    \A r \in Req :
        /\ CalledBack(r) => Returned(r)
        /\ (Len(trace[r]) >= 1 /\ trace[r][Len(trace[r])].status = "raised")
              => /\ Returned(r) /\ ~outcome[r].success
                 /\ Range(LaunchError.text) \subseteq Range(outcome[r].stderr)
        /\ (Len(trace[r]) >= 1 /\ trace[r][Len(trace[r])].status = "timeout")
              => /\ Returned(r) /\ ~outcome[r].success
                 /\ "timed out" \in Range(outcome[r].stderr)
        /\ (CalledBack(r) /\ IsCompileScript(cmd[r]) /\ loc[r].direct
                /\ RelativeToAppRaises(loc[r].tex_file))
              => /\ ~outcome[r].success
                 /\ Range(ValueError.text) \subseteq Range(outcome[r].stderr)

\* a generic command that could not be started
C8_Witness ==
    \E r \in Req :
        /\ pc[r] = "done" /\ entry[r] = "runner" /\ ~IsCompileScript(cmd[r])
        /\ Len(trace[r]) = 1 /\ trace[r][1].status = "raised"
        /\ outcome[r].returncode = -1

\* ------------------------------------------------------------------ C9
\* C9: every child process of a compile request is waited for with a
\* timeout, so a request whose pass sequence has started always returns an
\* outcome.
C9_AlwaysReturns ==
    \A r \in Req : (pc[r] = "pass1") ~> Returned(r)

\* ----------------------------------------------------------------- C10
\* C10: POST /api/compile for a file that does not exist under the project
\* root answers 404 with success false, without calling run_command,
\* starting a process or creating a directory; the dispatcher itself, given
\* a file that exists nowhere, returns a failure without starting a process
\* or creating a directory.
C10_NotFound ==
    [][\A r \in Req :
          /\ (pc[r] = "idle" /\ pc'[r] # "idle" /\ entry'[r] = "api"
                 /\ data'[r].file_path # "" /\ ~Exists(UnderRoot(data'[r].file_path)))
                => /\ pc'[r] = "done"
                   /\ http'[r].status = 404 /\ ~http'[r].success
                   /\ ~outcome'[r].set /\ trace'[r] = << >> /\ ~child'[r].running
                   /\ files' = files
          /\ (pc[r] = "run_command" /\ IsCompileScript(cmd[r])
                 /\ Parsed(cmd[r]).file_path # ""
                 /\ ~Exists(UnderRoot(Parsed(cmd[r]).file_path))
                 /\ ~Exists(ReplaceApp(UnderRoot(Parsed(cmd[r]).file_path)))
                 /\ pc'[r] # pc[r])
                => /\ outcome'[r].set /\ ~outcome'[r].success
                   /\ trace'[r] = << >> /\ ~child'[r].running
                   /\ files' = files]_vars

C10_Witness ==
    \E r \in Req :
        /\ pc[r] = "done" /\ entry[r] = "api"
        /\ data[r].file_path = "missing.tex"
        /\ http[r].status = 404
        /\ <<PROJECT_ROOT, "output">> \notin files


\* ----------------------------------------------------------------- C11
\* the path leaves the project tree
Escapes(p) == p[1] # PROJECT_ROOT \/ ".." \in Range(p)

\* C11: a compile request whose file_path leaves the project tree is
\* rejected and reaches neither run_command nor a compiler, also when a file
\* exists at the resolved location.
C11_EscapeRejected ==
    \A r \in Req :
        (entry[r] = "api" /\ pc[r] \notin {"off", "idle"} /\ data[r].file_path # ""
             /\ Escapes(UnderRoot(data[r].file_path)))
            => /\ pc[r] = "done" => (http[r].status \in {400, 404} /\ ~http[r].success)
               /\ \A i \in 1..Len(trace[r]) : trace[r][i].prog # "compiler"

\* ----------------------------------------------------------------- C12
\* C12: a compile request naming a compiler outside lualatex, pdflatex,
\* xelatex, platex is answered 400, and no process is started with that
\* value in its argument list.
C12_CompilerEnum ==
    \A r \in Req :
        (entry[r] = "api" /\ pc[r] \notin {"off", "idle"} /\ data[r].file_path # ""
             /\ data[r].compiler \notin SupportedCompilers)
            => /\ pc[r] = "done" => (http[r].status = 400 /\ ~http[r].success)
               /\ \A i \in 1..Len(trace[r]) : data[r].compiler \notin Range(trace[r][i].argv)

\* ----------------------------------------------------------------- C13
\* the execution environment an argument list stands for
Environment(argv) ==
    IF Len(argv) >= 2 /\ argv[1] = "docker" /\ argv[2] = "exec" THEN "SiblingContainer"
    ELSE IF Len(argv) >= 3 /\ argv[1] = "docker" /\ argv[2] = "compose" /\ argv[3] = "run"
        THEN "ComposeService"
    ELSE "Local"

\* the invocations of request r that belong to the pass sequence
Passes(r) == {i \in 1..Len(trace[r]) : trace[r][i].prog \in {"compiler", "bibtex"}}

Quiet == \A r \in Req : pc[r] \in {"off", "idle"}

\* The marker phrases of check-quality.sh are Japanese in the source; they
\* are single tokens here: the error marker, the warning marker and the
\* counter suffix that follows the number.
ERROR_MARKER == "[x] errors:"
WARNING_MARKER == "[!] warnings:"
COUNT_SUFFIX == "items"

DigitChar(d) ==
    CASE d = 0 -> "0" [] d = 1 -> "1" [] d = 2 -> "2" [] d = 3 -> "3" [] d = 4 -> "4"
      [] d = 5 -> "5" [] d = 6 -> "6" [] d = 7 -> "7" [] d = 8 -> "8" [] OTHER -> "9"

IsDigit(tok) == \E d \in 0..9 : DigitChar(d) = tok
DigitValue(tok) == CHOOSE d \in 0..9 : DigitChar(d) = tok

\* str(n), one token per digit
RECURSIVE Digits(_)
Digits(n) == IF n < 10 THEN <<DigitChar(n)>> ELSE Digits(n \div 10) \o <<DigitChar(n % 10)>>

\* s.split(tok)[0]
BeforeFirst(line, tok) ==
    IF tok \notin Range(line) THEN line
    ELSE LET k == CHOOSE i \in 1..Len(line) : line[i] = tok /\ \A j \in 1..(i - 1) : line[j] # tok
         IN  SubSeq(line, 1, k - 1)

\* s.split(tok)[1], for a line that contains tok
AfterFirst(line, tok) ==
    LET k == CHOOSE i \in 1..Len(line) : line[i] = tok /\ \A j \in 1..(i - 1) : line[j] # tok
    IN  BeforeFirst(SubSeq(line, k + 1, Len(line)), tok)

\* int(s): raises ValueError unless s is a non-empty string of digits
IntParses(toks) == Len(toks) > 0 /\ \A i \in 1..Len(toks) : IsDigit(toks[i])
RECURSIVE IntValue(_)
IntValue(toks) ==
    IF Len(toks) = 0 THEN 0
    ELSE 10 * IntValue(SubSeq(toks, 1, Len(toks) - 1)) + DigitValue(toks[Len(toks)])

\* int(line.split(marker)[1].split(suffix)[0].strip())
CountField(line, marker) == Strip(BeforeFirst(AfterFirst(line, marker), COUNT_SUFFIX))

\* line.strip().startswith(("1.", "2.", "3.", "4.", "5."))
IsSuggestion(line) == Len(Strip(line)) > 0 /\ Strip(line)[1] \in {"1.", "2.", "3.", "4.", "5."}

\* the loop over output_lines; acc holds errors, warnings, suggestions
RECURSIVE ParseOutput(_, _)
ParseOutput(lines, acc) ==
    IF Len(lines) = 0 THEN acc
    ELSE LET line == lines[1] IN
         ParseOutput(Tail(lines),
            IF ERROR_MARKER \in Range(line)
               THEN IF IntParses(CountField(line, ERROR_MARKER))
                       THEN [acc EXCEPT !.errors = IntValue(CountField(line, ERROR_MARKER))]
                       ELSE acc
            ELSE IF WARNING_MARKER \in Range(line)
               THEN IF IntParses(CountField(line, WARNING_MARKER))
                       THEN [acc EXCEPT !.warnings = IntValue(CountField(line, WARNING_MARKER))]
                       ELSE acc
            ELSE IF IsSuggestion(line)
               THEN [acc EXCEPT !.suggestions = Append(@, Strip(line))]
            ELSE acc)

\* the score without its floor
QualityScoreUnclamped(errors, warnings) == 100 - (errors * 20) - (warnings * 5)

\* quality_score = max(0, 100 - (errors * 20) - (warnings * 5))
QualityScore(errors, warnings) ==
    IF 100 - (errors * 20) - (warnings * 5) > 0 THEN 100 - (errors * 20) - (warnings * 5) ELSE 0

\* the lowest threshold ten points lower
QualityLevelLenient(quality_score) ==
    IF quality_score >= 90 THEN "excellent"
    ELSE IF quality_score >= 70 THEN "good"
    ELSE IF quality_score >= 40 THEN "needs_improvement"
    ELSE "poor"

\* quality_level = "excellent" if quality_score >= 90 else ...
QualityLevel(quality_score) ==
    IF quality_score >= 90 THEN "excellent"
    ELSE IF quality_score >= 70 THEN "good"
    ELSE IF quality_score >= 50 THEN "needs_improvement"
    ELSE "poor"

\* lines the quality tool may print
ErrorLine(n) == <<ERROR_MARKER, SPACE>> \o Digits(n) \o <<COUNT_SUFFIX>>
WarningLine(n) == <<WARNING_MARKER, SPACE, SPACE>> \o Digits(n) \o <<COUNT_SUFFIX>>
OutputLines ==
    {ErrorLine(n) : n \in 0..MaxErrors} \cup {WarningLine(n) : n \in 0..MaxWarnings}
    \cup {<<ERROR_MARKER, SPACE, "many", COUNT_SUFFIX>>,      \* no number after the marker
          <<WARNING_MARKER>>,                                  \* nothing after the marker
          <<SPACE, "1.", "shorten the abstract">>,             \* a suggestion
          <<"checking", "main.tex">>}                          \* anything else

\* the stdout of the tool: up to MaxOutLines lines, newline-joined
RECURSIVE LineSeqs(_)
LineSeqs(n) ==
    IF n = 0 THEN {<< >>}
    ELSE LET shorter == LineSeqs(n - 1)
         IN  shorter \cup {Append(q, l) : q \in {x \in shorter : Len(x) = n - 1}, l \in OutputLines}

ToolOutputs == {JoinLines(q) : q \in LineSeqs(MaxOutLines)}

\* requests of POST /api/quality-check: an unreadable body, or a file_path
QualityRequests == {"malformed"} \cup {""} \cup RelPaths

\* POST /api/quality-check, with the outcome of run_command(check-quality.sh)
quality_check_from(outputs) ==
    /\ call = NoCall /\ Quiet
    /\ \E q \in QualityRequests, rc \in 0..1, out \in outputs :
          call' =
            IF q = "malformed"
               THEN \* request.get_json() raises
                    [handler |-> "quality_check", file_path |-> q, raised |-> TRUE,
                     envelope |-> TRUE, status |-> 500, success |-> FALSE]
            ELSE IF q = ""
               THEN [handler |-> "quality_check", file_path |-> q, raised |-> FALSE,
                     envelope |-> TRUE, status |-> 400, success |-> FALSE]
            ELSE IF ~Exists(UnderRoot(q))
               THEN [handler |-> "quality_check", file_path |-> q, raised |-> FALSE,
                     envelope |-> TRUE, status |-> 404, success |-> FALSE]
            ELSE LET result == GenericOutcome(rc, out, << >>)
                     p == ParseOutput(SplitLines(result.stdout),
                                      [errors |-> 0, warnings |-> 0, suggestions |-> << >>])
                     score == QualityScore(p.errors, p.warnings)
                 IN  [handler |-> "quality_check", file_path |-> q, raised |-> FALSE,
                      envelope |-> TRUE, status |-> 200, success |-> TRUE,
                      full_output |-> result.stdout, check_successful |-> result.success,
                      errors |-> p.errors, warnings |-> p.warnings, suggestions |-> p.suggestions,
                      quality_score |-> score, quality_level |-> QualityLevel(score)]
    /\ UNCHANGED <<PROJECT_ROOT, files, pc, entry, data, cmd, loc, child, trace, outcome, http, served>>

\* the response leaves the server; the next request may arrive
send_response ==
    /\ call # NoCall
    /\ call' = NoCall
    /\ UNCHANGED <<PROJECT_ROOT, files, pc, entry, data, cmd, loc, child, trace, outcome, http, served>>

quality_check == quality_check_from(ToolOutputs)

NextQuality == quality_check \/ send_response

SpecQuality == InitHost /\ [][NextQuality]_vars

\* ----------------------------------------------------------------- C14
Answered(h) == call.handler = h /\ call.status = 200

\* C14: the quality check returns quality_score = max(0, 100 - 20*errors -
\* 5*warnings), within 0..100, and the level excellent from 90, good from
\* 70, needs_improvement from 50 and poor below.
C14_ScoreAndLevel ==
    Answered("quality_check") =>
        LET raw == 100 - 20 * call.errors - 5 * call.warnings IN
        /\ call.errors >= 0 /\ call.warnings >= 0
        /\ call.quality_score = (IF raw < 0 THEN 0 ELSE raw)
        /\ call.quality_score \in 0..100
        /\ call.quality_score >= 90 => call.quality_level = "excellent"
        /\ (call.quality_score >= 70 /\ call.quality_score < 90) => call.quality_level = "good"
        /\ (call.quality_score >= 50 /\ call.quality_score < 70)
              => call.quality_level = "needs_improvement"
        /\ call.quality_score < 50 => call.quality_level = "poor"

\* counts whose raw score is negative
C14_Witness ==
    /\ Answered("quality_check")
    /\ call.errors = MaxErrors /\ call.warnings = 1
    /\ call.quality_score = 0 /\ call.quality_level = "poor"

\* ----------------------------------------------------------------- C15
TwoErrorsThreeWarnings == JoinLines(<<ErrorLine(2), WarningLine(3)>>)

\* C15 (as stated): output reporting 2 errors and 3 warnings yields score 45
\* and level needs_improvement.
C15_ExampleNeedsImprovement ==
    (Answered("quality_check") /\ call.full_output = TwoErrorsThreeWarnings)
        => (call.quality_score = 45 /\ call.quality_level = "needs_improvement")

\* C15 (amended): output reporting 2 errors and 3 warnings yields errors 2,
\* warnings 3, score 45 and level poor.
C15_ExamplePoor ==
    (Answered("quality_check") /\ call.full_output = TwoErrorsThreeWarnings)
        => /\ call.errors = 2 /\ call.warnings = 3
           /\ call.quality_score = 45 /\ call.quality_level = "poor"

C15_Witness ==
    /\ Answered("quality_check") /\ call.full_output = TwoErrorsThreeWarnings
    /\ call.quality_score = 45

\* ----------------------------------------------------------------- C16
\* the numbers on the well-formed lines of a marker, in output order
MarkerCounts(text, marker) ==
    LET lines == SplitLines(text)
        good == SelectSeq(lines, LAMBDA l : marker \in Range(l) /\ IntParses(CountField(l, marker)))
    IN  [i \in 1..Len(good) |-> IntValue(CountField(good[i], marker))]

\* C16: the reported error count (warning count) is the number on the first
\* line that carries the marker with a number; a malformed marker line is
\* skipped and the request still succeeds.
C16_FirstOccurrence ==
    (call.handler = "quality_check" /\ ~call.raised /\ call.file_path # ""
         /\ Exists(UnderRoot(call.file_path)))
        => /\ call.status = 200
           /\ LET e == MarkerCounts(call.full_output, ERROR_MARKER)
                  w == MarkerCounts(call.full_output, WARNING_MARKER)
              IN  /\ Len(e) > 0 => call.errors = e[1]
                  /\ Len(w) > 0 => call.warnings = w[1]

\* ---------------------------------------------------------- log scraper
RECURSIVE LogSeqs(_)
LogSeqs(n) ==
    IF n = 0 THEN {<< >>}
    ELSE LET shorter == LogSeqs(n - 1)
         IN  shorter \cup {Append(q, l) : q \in {x \in shorter : Len(x) = n - 1},
                                          l \in {MatchingLine(n), OtherLine(n)}}

LogContents == {JoinLines(q) : q \in LogSeqs(MaxLogLines)}

\* compile_document's extraction of error lines from the log of a failed
\* compilation; read_text may raise, which leaves log_info unset
scrape_log ==
    /\ call = NoCall /\ Quiet
    /\ \E log_content \in LogContents, readable \in BOOLEAN :
          call' = IF readable
                     THEN [handler |-> "scrape_log", log_content |-> log_content,
                           log_info |-> TRUE, error_lines |-> ErrorLines(log_content)]
                     ELSE [handler |-> "scrape_log", log_content |-> log_content,
                           log_info |-> FALSE, error_lines |-> << >>]
    /\ UNCHANGED <<PROJECT_ROOT, files, pc, entry, data, cmd, loc, child, trace, outcome, http, served>>

NextLog == scrape_log \/ send_response

SpecLog == InitHost /\ [][NextLog]_vars

\* ----------------------------------------------------------------- C17
Scraped == call.handler = "scrape_log" /\ call.log_info

MatchingIndexes(lines) == {i \in 1..Len(lines) : Matches(lines[i])}

\* the index of the k-th matching line
KthMatch(lines, k) ==
    CHOOSE i \in MatchingIndexes(lines) : Cardinality({j \in MatchingIndexes(lines) : j < i}) = k - 1

\* C17 (as stated): the scraped error lines are exactly the first 10
\* matching lines of the log, in their original order (all of them when
\* there are 10 or fewer), and no other line.
C17_FirstTenVerbatim ==
    Scraped =>
        LET lines == SplitLines(call.log_content)
            n == Min(Cardinality(MatchingIndexes(lines)), 10)
        IN  /\ Len(call.error_lines) = n
            /\ \A k \in 1..n : call.error_lines[k] = lines[KthMatch(lines, k)]

\* C17 (amended): the scraped error lines are the first 10 matching lines
\* of the log in their original order (all of them when there are 10 or
\* fewer), each with its leading and trailing whitespace removed; every
\* scraped line comes from a matching line.
C17_FirstTenStripped ==
    Scraped =>
        LET lines == SplitLines(call.log_content)
            n == Min(Cardinality(MatchingIndexes(lines)), 10)
        IN  /\ Len(call.error_lines) = n
            /\ \A k \in 1..n : call.error_lines[k] = Strip(lines[KthMatch(lines, k)])
            /\ \A k \in 1..n : Matches(call.error_lines[k])

\* a log with more than 10 matching lines and a non-matching line among them
C17_Witness ==
    /\ Scraped
    /\ Cardinality(MatchingIndexes(SplitLines(call.log_content))) > 10
    /\ ~Matches(SplitLines(call.log_content)[2])
    /\ Len(call.error_lines) = 10

\* ------------------------------------------------- project tree handlers
\* Directories are told from regular files by their names.
DirNames ==
    Roots \cup {"proj", "drafts", "output", "figures", "newproj",
                "templates", "courses", "2024", "math", "hw1", "sections"}
IsDir(p) == Exists(p) /\ Name(p) \in DirNames

\* the entries at and below p
Subtree(p) == {q \in files : Len(q) >= Len(p) /\ SubSeq(q, 1, Len(p)) = p}

\* p and the directories above it
Ancestors(p) == {SubSeq(p, 1, k) : k \in 1..Len(p)}

\* project trees a deployment may hold
ProjectFiles(root) == {<<root, "proj">>, <<root, "proj", "main.tex">>}
ProjectOutput(root) == {<<root, "proj", "output">>, <<root, "proj", "output", "main.pdf">>}
DraftFiles(root) == {<<root, "drafts">>, <<root, "drafts", "notes.txt">>}
LooseFiles(root) == {<<root, "notes.txt">>}

InitProjects ==
    /\ PROJECT_ROOT = "/app"
    /\ \E proj \in BOOLEAN, out \in BOOLEAN :
          files = {<<PROJECT_ROOT>>}
                  \cup (IF proj THEN ProjectFiles(PROJECT_ROOT) ELSE {})
                  \cup (IF proj /\ out THEN ProjectOutput(PROJECT_ROOT) ELSE {})
                  \cup DraftFiles(PROJECT_ROOT) \cup LooseFiles(PROJECT_ROOT)
    /\ pc = [r \in Req |-> "off"]
    /\ entry = [r \in Req |-> "api"]
    /\ data = [r \in Req |-> NoData]
    /\ cmd = [r \in Req |-> << >>]
    /\ loc = [r \in Req |-> NoLoc]
    /\ child = [r \in Req |-> NoChild]
    /\ trace = [r \in Req |-> << >>]
    /\ outcome = [r \in Req |-> NoOutcome]
    /\ http = [r \in Req |-> NoHttp]
    /\ served = 0
    /\ call = NoCall

\* the <path:project_path> values of DELETE /api/projects/...
ProjectPaths == {"proj", "drafts", "notes.txt", "ghost"}

\* delete_project goes on to shutil.rmtree
DeletableAnyDirectory(full_path) == IsDir(full_path)
Deletable(full_path) == IsDir(full_path) /\ Exists(Join(full_path, "main.tex"))

\* what shutil.rmtree(full_path) may have removed when it returns or raises:
\* entries are removed children first
Removals(full_path) ==
    {S \in SUBSET Subtree(full_path) : \A q \in S : Subtree(q) \subseteq S}

\* DELETE /api/projects/<path:project_path>
delete_project ==
    /\ call = NoCall /\ Quiet
    /\ \E project_path \in ProjectPaths :
          LET full_path == <<PROJECT_ROOT>> \o Parts(project_path)
              reply(status) == [handler |-> "delete_project", project_path |-> project_path,
                                raised |-> status = 500, envelope |-> TRUE,
                                status |-> status, success |-> status = 200]
          IN  IF ~Exists(full_path)
                 THEN call' = reply(404) /\ files' = files
              ELSE IF ~IsDir(full_path)
                 THEN call' = reply(400) /\ files' = files
              ELSE IF ~Deletable(full_path)
                 THEN call' = reply(400) /\ files' = files
              ELSE \E S \in Removals(full_path) :
                      /\ files' = files \ S
                      /\ call' = reply(IF S = Subtree(full_path) THEN 200 ELSE 500)
    /\ UNCHANGED <<PROJECT_ROOT, pc, entry, data, cmd, loc, child, trace, outcome, http, served>>

\* ------------------------------------------------------------ upload_file
\* A file name is a sequence of characters: "a" for a letter or digit, "#"
\* for a character outside [A-Za-z0-9_.-] (non-ASCII included).
NameChars == {"a", ".", "/", " ", "#"}

RECURSIVE NamesUpTo(_)
NamesUpTo(n) ==
    IF n = 0 THEN {<< >>}
    ELSE LET shorter == NamesUpTo(n - 1)
         IN  shorter \cup {Append(q, c) : q \in {x \in shorter : Len(x) = n - 1}, c \in NameChars}

FileNames == NamesUpTo(MaxNameLen)

\* the string of a character sequence
RECURSIVE Str(_)
Str(chars) == IF Len(chars) = 0 THEN "" ELSE chars[1] \o Str(Tail(chars))

\* "_".join(s.split())
RECURSIVE JoinWords(_)
JoinWords(chars) ==
    IF Len(chars) = 0 THEN << >>
    ELSE IF chars[1] = " " THEN JoinWords(Tail(chars))
    ELSE LET word == BeforeFirst(chars, " ")
             rest == JoinWords(SubSeq(chars, Len(word) + 1, Len(chars)))
         IN  IF Len(rest) = 0 THEN word ELSE word \o <<"_">> \o rest

\* s.strip("._")
RECURSIVE StripDots(_)
StripDots(chars) ==
    IF Len(chars) = 0 THEN chars
    ELSE IF chars[1] \in {".", "_"} THEN StripDots(Tail(chars))
    ELSE IF chars[Len(chars)] \in {".", "_"} THEN StripDots(SubSeq(chars, 1, Len(chars) - 1))
    ELSE chars

\* the name kept as the client sent it
secure_filename_asis(chars) == chars

\* werkzeug.utils.secure_filename: separators become spaces, words are
\* joined by "_", characters outside [A-Za-z0-9_.-] are dropped, leading and
\* trailing dots and underscores are stripped
secure_filename(chars) ==
    StripDots(SelectSeq(JoinWords([i \in 1..Len(chars) |-> IF chars[i] = "/" THEN " " ELSE chars[i]]),
                        LAMBDA c : c \in {"a", ".", "_", "-"}))

\* the multipart requests of POST /api/upload
OtherUploads ==
    {[part |-> FALSE, oversize |-> FALSE, raw |-> << >>, project_path |-> "", subdirectory |-> ""],
     [part |-> TRUE, oversize |-> TRUE, raw |-> <<"a">>, project_path |-> "proj", subdirectory |-> ""]}
    \cup [part : {TRUE}, oversize : {FALSE}, raw : {<<"a">>},
          project_path : {"", "proj", "newproj", "notes.txt"}, subdirectory : {"", "figures"}]

UploadRequests ==
    OtherUploads
    \cup [part : {TRUE}, oversize : {FALSE}, raw : FileNames, project_path : {"proj"}, subdirectory : {""}]

\* POST /api/upload
upload_file_from(requests) ==
    /\ call = NoCall /\ Quiet
    /\ served < MaxUploads
    /\ served' = served + 1
    /\ \E q \in requests :
          LET reply(status) == [handler |-> "upload_file", part |-> q.part, raw |-> q.raw,
                                project_path |-> q.project_path, subdirectory |-> q.subdirectory,
                                raised |-> status = 500, envelope |-> TRUE,
                                status |-> status, success |-> status = 200]
              project_dir == <<PROJECT_ROOT>> \o Parts(q.project_path)
              upload_dir == IF q.subdirectory # "" THEN Join(project_dir, q.subdirectory)
                            ELSE project_dir
              sanitized == secure_filename(q.raw)
              filename == IF Len(sanitized) = 0 THEN "uploaded_file" ELSE Str(sanitized)
              file_path == Join(upload_dir, filename)
          IN  IF q.oversize
                 THEN \* the body exceeds MAX_CONTENT_LENGTH: request.files raises inside the try
                      call' = reply(500) /\ files' = files
              ELSE IF ~q.part \/ q.raw = << >> \/ q.project_path = ""
                 THEN call' = reply(400) /\ files' = files
              ELSE IF \E d \in Ancestors(upload_dir) : Exists(d) /\ ~IsDir(d)
                 THEN \* mkdir or file.save raises: a regular file is in the way
                      call' = reply(500) /\ files' = files
              ELSE /\ files' = files \cup Ancestors(upload_dir) \cup {file_path}
                   /\ call' = [handler |-> "upload_file", part |-> q.part, raw |-> q.raw,
                               project_path |-> q.project_path, subdirectory |-> q.subdirectory,
                               raised |-> FALSE, envelope |-> TRUE,
                               status |-> 200, success |-> TRUE,
                               sanitized |-> sanitized, filename |-> filename,
                               upload_dir |-> upload_dir, file_path |-> file_path]
    /\ UNCHANGED <<PROJECT_ROOT, pc, entry, data, cmd, loc, child, trace, outcome, http>>

upload_file == upload_file_from(UploadRequests)

NextProjects == delete_project \/ upload_file \/ send_response

SpecProjects == InitProjects /\ [][NextProjects]_vars

\* ----------------------------------------------------------------- C18
\* C18: deleting a missing path answers 404, a path that is not a directory
\* 400 and a directory without main.tex 400, each with success false and the
\* filesystem unchanged; entries are removed only when the path is a
\* directory that contains main.tex.
C18_DeleteValidation ==
    [][(call = NoCall /\ call'.handler = "delete_project") =>
          LET full_path == <<PROJECT_ROOT, call'.project_path>>
              main_tex == <<PROJECT_ROOT, call'.project_path, "main.tex">>
              is_dir == full_path \in files /\ call'.project_path \in DirNames
          IN  /\ full_path \notin files
                    => (call'.status = 404 /\ ~call'.success /\ files' = files)
              /\ (full_path \in files /\ ~is_dir)
                    => (call'.status = 400 /\ ~call'.success /\ files' = files)
              /\ (is_dir /\ main_tex \notin files)
                    => (call'.status = 400 /\ ~call'.success /\ files' = files)
              /\ files' # files => (is_dir /\ main_tex \in files)
              /\ call'.success => \A q \in files' : Len(q) < 2 \/ q[2] # call'.project_path
      ]_vars

\* the directory without main.tex was refused and is still there
C18_Witness ==
    /\ call.handler = "delete_project" /\ call.project_path = "drafts"
    /\ call.status = 400 /\ ~call.success
    /\ <<PROJECT_ROOT, "drafts", "notes.txt">> \in files
    /\ <<PROJECT_ROOT, "drafts", "main.tex">> \notin files

\* ----------------------------------------------------------------- C19
\* C19: an accepted upload is written as a direct child of the upload
\* directory under a name without a path separator that is not ".." (nor
\* "."), and a name that sanitises to nothing is stored as "uploaded_file";
\* nothing else is written but the upload directory itself.
C19_SafeBasename ==
    [][(call = NoCall /\ call'.handler = "upload_file" /\ call'.status = 200) =>
          /\ "/" \notin Range(call'.sanitized)
          /\ call'.sanitized \notin {<<".", ".">>, <<".">>}
          /\ "a" \notin Range(call'.raw) => call'.filename = "uploaded_file"
          /\ call'.filename # ""
          /\ Len(call'.sanitized) > 0 => call'.filename = Str(call'.sanitized)
          /\ call'.file_path = call'.upload_dir \o <<call'.filename>>
          /\ call'.file_path \in files'
          /\ files' \ files \subseteq Ancestors(call'.file_path)
      ]_vars

\* the name "../a" was stored as "a" in the project directory
C19_Witness ==
    /\ call.handler = "upload_file" /\ call.status = 200
    /\ call.raw = <<".", ".", "/", "a">>
    /\ call.project_path = "proj" /\ call.subdirectory = ""
    /\ call.filename = "a"
    /\ <<PROJECT_ROOT, "proj", "a">> \in files


\* ------------------------------------------------- the other handlers
\* What a request carries: the kind of body ("get" for a request without
\* one, "malformed" for a body that is not JSON, "empty" for a JSON body that
\* is falsy, "json" otherwise) and the fields the handlers read.
NoRequest ==
    [kind |-> "get", file_path |-> "", template_name |-> "", action |-> "",
     semester |-> "", course |-> "", report_name |-> "", template |-> ""]

\* jsonify(asdict(ApiResponse(...))), status
Envelope(h, request, status, success, raised) ==
    [handler |-> h, request |-> request, raised |-> raised, envelope |-> TRUE,
     status |-> status, success |-> success]

\* send_file(full_path, ...): the file's bytes, not an ApiResponse
SentFile(h, request) ==
    [handler |-> h, request |-> request, raised |-> FALSE, envelope |-> FALSE,
     status |-> 200, success |-> TRUE]

\* the except Exception clause that closes every handler but health_check
Failed(h, request) == Envelope(h, request, 500, FALSE, TRUE)

Untouched == UNCHANGED <<PROJECT_ROOT, files, pc, entry, data, cmd, loc, child, trace, outcome, http, served>>

\* no lookup of the requested resource
MissingResourceNever(full_path) == FALSE

\* if not full_path.exists(): ... 404
MissingResource(full_path) == ~Exists(full_path)

\* GET /api/health
health_check ==
    /\ call = NoCall /\ Quiet
    /\ call' = Envelope("health_check", NoRequest, 200, TRUE, FALSE)
    /\ Untouched

\* GET /api/templates; stat() of a listed template may raise
get_templates ==
    /\ call = NoCall /\ Quiet
    /\ \E fault \in BOOLEAN :
          call' = IF fault THEN Failed("get_templates", NoRequest)
                  ELSE Envelope("get_templates", NoRequest, 200, TRUE, FALSE)
    /\ Untouched

\* GET /api/templates/<template_name>; read_text may raise
get_template_content ==
    /\ call = NoCall /\ Quiet
    /\ \E template_name \in {"report-basic.tex", "nope.tex"}, fault \in BOOLEAN :
          LET request == [NoRequest EXCEPT !.template_name = template_name]
              template_file == <<PROJECT_ROOT, "templates", template_name>>
          IN  call' = IF MissingResource(template_file)
                         THEN Envelope("get_template_content", request, 404, FALSE, FALSE)
                      ELSE IF fault THEN Failed("get_template_content", request)
                      ELSE Envelope("get_template_content", request, 200, TRUE, FALSE)
    /\ Untouched

\* what create_project creates for COURSES_DIR / semester / course / report_name
CreatedDirs(project_path) ==
    Ancestors(project_path) \cup {Join(project_path, d) : d \in {"figures", "output", "sections"}}
GitKeeps(project_path) ==
    {Join(Join(project_path, d), ".gitkeep") : d \in {"output", "figures"}}
Rewritten(project_path) ==
    {Join(project_path, f) : f \in {"main.tex", "README.md", ".gitignore"}}
CreatedFiles(project_path) ==
    CreatedDirs(project_path) \cup GitKeeps(project_path) \cup Rewritten(project_path)

CreateRequests ==
    {[NoRequest EXCEPT !.kind = k] : k \in {"malformed", "empty"}}
    \cup {[NoRequest EXCEPT !.kind = "json", !.semester = s, !.course = c, !.report_name = n,
                            !.template = t] :
             s \in {"", "2024"}, c \in {"", "math"}, n \in {"", "hw1"},
             t \in {"", "report-basic.tex", "nope.tex"}}

\* the regular files among S below dir
RegularUnder(S, dir) ==
    {q \in S : Len(q) > Len(dir) /\ SubSeq(q, 1, Len(dir)) = dir /\ Name(q) \notin DirNames}

\* the contents of the files below COURSES_DIR when the request arrives:
\* whatever their owner last wrote
ContentsBefore == [q \in RegularUnder(files, <<PROJECT_ROOT, "courses">>) |-> "edited"]

\* main.tex: shutil.copy2 of the template if it is named and exists, else the
\* base template
MainTex(request) ==
    IF request.template # "" /\ Exists(<<PROJECT_ROOT, "templates", request.template>>)
       THEN "copy of " \o request.template
       ELSE "base template"

\* files that exist are left as they are
ContentsAfterKeepExisting(before, project_path, request, S) ==
    [q \in RegularUnder(S, <<PROJECT_ROOT, "courses">>) |->
        IF q \in DOMAIN before THEN before[q]
        ELSE IF q = Join(project_path, "main.tex") THEN MainTex(request)
        ELSE IF q = Join(project_path, "README.md") THEN "readme"
        ELSE IF q = Join(project_path, ".gitignore") THEN "gitignore"
        ELSE ""]

\* the contents after touch() of the .gitkeep files, copy2 / write_text of
\* main.tex and write_text of README.md and .gitignore
ContentsAfter(before, project_path, request, S) ==
    [q \in RegularUnder(S, <<PROJECT_ROOT, "courses">>) |->
        IF q = Join(project_path, "main.tex") THEN MainTex(request)
        ELSE IF q = Join(project_path, "README.md") THEN "readme"
        ELSE IF q = Join(project_path, ".gitignore") THEN "gitignore"
        ELSE IF q \in DOMAIN before THEN before[q]
        ELSE ""]

\* the answer of create_project with the contents it found and left
Created(e, before, after) ==
    [handler |-> e.handler, request |-> e.request, raised |-> e.raised, envelope |-> e.envelope,
     status |-> e.status, success |-> e.success, before |-> before, after |-> after]

\* POST /api/projects; fault: the first filesystem call that raises
create_project ==
    /\ call = NoCall /\ Quiet
    /\ \E request \in CreateRequests, fault \in {"none", "mkdir", "write"} :
          LET project_path == <<PROJECT_ROOT, "courses", request.semester, request.course,
                                request.report_name>>
              before == ContentsBefore
          IN  IF request.kind = "malformed"
                 THEN /\ call' = Created(Failed("create_project", request), before, before)
                      /\ files' = files
              ELSE IF request.kind = "empty"
                      \/ request.semester = "" \/ request.course = "" \/ request.report_name = ""
                 THEN /\ call' = Created(Envelope("create_project", request, 400, FALSE, FALSE),
                                         before, before)
                      /\ files' = files
              ELSE IF fault = "mkdir"
                 THEN /\ call' = Created(Failed("create_project", request), before, before)
                      /\ files' = files
              ELSE IF fault = "write"
                 THEN \* the directories and .gitkeep files are there, main.tex is not written
                      /\ files' = files \cup CreatedDirs(project_path) \cup GitKeeps(project_path)
                      /\ call' = Created(Failed("create_project", request), before,
                                         [q \in RegularUnder(files', <<PROJECT_ROOT, "courses">>) |->
                                             IF q \in DOMAIN before THEN before[q] ELSE ""])
              ELSE /\ files' = files \cup CreatedFiles(project_path)
                   /\ call' = Created(Envelope("create_project", request, 200, TRUE, FALSE), before,
                                      ContentsAfter(before, project_path, request, files'))
    /\ UNCHANGED <<PROJECT_ROOT, pc, entry, data, cmd, loc, child, trace, outcome, http, served>>

\* file_path.endswith('.pdf')
EndsWithPdf(file_path) == file_path \in {"report.pdf", "main.pdf"}

\* GET /api/files/<path:file_path>; decodes: the file's bytes are UTF-8
get_file ==
    /\ call = NoCall /\ Quiet
    /\ \E file_path \in {"notes.txt", "report.pdf", "proj", "ghost"},
          decodes \in BOOLEAN, fault \in BOOLEAN :
          LET request == [NoRequest EXCEPT !.file_path = file_path]
              full_path == UnderRoot(file_path)
          IN  call' = IF MissingResource(full_path)
                         THEN Envelope("get_file", request, 404, FALSE, FALSE)
                      ELSE IF IsDir(full_path)
                         THEN Envelope("get_file", request, 400, FALSE, FALSE)
                      ELSE IF fault THEN Failed("get_file", request)
                      ELSE IF EndsWithPdf(file_path) THEN SentFile("get_file", request)
                      ELSE IF ~decodes THEN SentFile("get_file", request)
                      ELSE Envelope("get_file", request, 200, TRUE, FALSE)
    /\ Untouched

\* GET /api/projects; iterdir() or stat() may raise
list_projects ==
    /\ call = NoCall /\ Quiet
    /\ \E fault \in BOOLEAN :
          call' = IF fault THEN Failed("list_projects", NoRequest)
                  ELSE Envelope("list_projects", NoRequest, 200, TRUE, FALSE)
    /\ Untouched

\* POST /api/templates/manage, with the outcome of run_command(manage-templates.sh)
manage_templates ==
    /\ call = NoCall /\ Quiet
    /\ \E kind \in {"malformed", "empty", "json"}, action \in {"", "list"}, rc \in 0..1 :
          LET request == [NoRequest EXCEPT !.kind = kind,
                                           !.action = IF kind = "json" THEN action ELSE ""]
              result == GenericOutcome(rc, << >>, << >>)
          IN  call' = IF kind = "malformed" THEN Failed("manage_templates", request)
                      ELSE IF kind = "empty" \/ request.action = ""
                         THEN Envelope("manage_templates", request, 400, FALSE, FALSE)
                      ELSE Envelope("manage_templates", request, 200, result.success, FALSE)
    /\ Untouched

\* POST /api/watch; stat() may raise
start_watch ==
    /\ call = NoCall /\ Quiet
    /\ \E kind \in {"malformed", "empty", "json"}, file_path \in {"", "main.tex", "ghost"},
          fault \in BOOLEAN :
          LET request == [NoRequest EXCEPT !.kind = kind,
                                           !.file_path = IF kind = "json" THEN file_path ELSE ""]
          IN  call' = IF kind = "malformed" THEN Failed("start_watch", request)
                      ELSE IF kind = "empty" \/ request.file_path = ""
                         THEN Envelope("start_watch", request, 400, FALSE, FALSE)
                      ELSE IF MissingResource(UnderRoot(request.file_path))
                         THEN Envelope("start_watch", request, 404, FALSE, FALSE)
                      ELSE IF fault THEN Failed("start_watch", request)
                      ELSE Envelope("start_watch", request, 200, TRUE, FALSE)
    /\ Untouched

\* GET /api/system/info; rglob() or stat() may raise
system_info ==
    /\ call = NoCall /\ Quiet
    /\ \E fault \in BOOLEAN :
          call' = IF fault THEN Failed("system_info", NoRequest)
                  ELSE Envelope("system_info", NoRequest, 200, TRUE, FALSE)
    /\ Untouched

\* a request for a route that does not exist: errorhandler(404)
not_found ==
    /\ call = NoCall /\ Quiet
    /\ call' = Envelope("not_found", NoRequest, 404, FALSE, FALSE)
    /\ Untouched

\* a deployment with templates, a project, a directory that is no project,
\* and loose files
InitHandlers ==
    /\ PROJECT_ROOT \in Roots
    /\ files = {<<PROJECT_ROOT>>, <<PROJECT_ROOT, "main.tex">>,
                <<PROJECT_ROOT, "templates">>, <<PROJECT_ROOT, "templates", "report-basic.tex">>,
                <<PROJECT_ROOT, "report.pdf">>}
               \cup ProjectFiles(PROJECT_ROOT) \cup DraftFiles(PROJECT_ROOT)
               \cup LooseFiles(PROJECT_ROOT)
    /\ pc = [r \in Req |-> IF r = 1 THEN "idle" ELSE "off"]
    /\ entry = [r \in Req |-> "api"]
    /\ data = [r \in Req |-> NoData]
    /\ cmd = [r \in Req |-> << >>]
    /\ loc = [r \in Req |-> NoLoc]
    /\ child = [r \in Req |-> NoChild]
    /\ trace = [r \in Req |-> << >>]
    /\ outcome = [r \in Req |-> NoOutcome]
    /\ http = [r \in Req |-> NoHttp]
    /\ served = 0
    /\ call = NoCall

\* the compile requests, tool outputs and uploads of this specification
HandlerBodies ==
    [file_path : {"", "main.tex", "missing.tex"}, compiler : {"lualatex"}, use_bibtex : BOOLEAN,
     quick : {TRUE}, open_pdf : {FALSE}, watch : BOOLEAN]
HandlerOutputs == {<< >>, ErrorLine(1)}

\* every handler of the server, requests taken one at a time
NextHandlers ==
    \/ \E r \in Req :
          \/ compile_document_from(r, HandlerBodies)
          \/ run_command(r)
          \/ Launch(r)
          \/ ChildExit(r)
          \/ Timeout(r)
          \/ AuxCheck(r)
          \/ PdfCheck(r)
          \/ Respond(r)
          \/ NextRequest(r)
    \/ health_check
    \/ get_templates
    \/ get_template_content
    \/ create_project
    \/ quality_check_from(HandlerOutputs)
    \/ get_file
    \/ list_projects
    \/ manage_templates
    \/ delete_project
    \/ start_watch
    \/ upload_file_from(OtherUploads)
    \/ system_info
    \/ not_found
    \/ send_response

SpecHandlers == InitHandlers /\ [][NextHandlers]_vars

\* ----------------------------------------------------------------- C20
\* the request lacks a field its handler requires
FieldMissing(c) ==
    CASE c.handler \in {"create_project", "manage_templates", "start_watch"} ->
            \/ c.request.kind = "empty"
            \/ /\ c.request.kind = "json"
               /\ CASE c.handler = "create_project" ->
                          "" \in {c.request.semester, c.request.course, c.request.report_name}
                    [] c.handler = "manage_templates" -> c.request.action = ""
                    [] OTHER -> c.request.file_path = ""
      [] c.handler = "quality_check" -> c.file_path = ""
      [] c.handler = "upload_file" -> ~c.part \/ c.raw = << >> \/ c.project_path = ""
      [] OTHER -> FALSE

\* the request names a file, template or project that does not exist
ResourceMissing(c) ==
    CASE c.handler \in {"get_file", "start_watch"} ->
            c.request.file_path # "" /\ <<PROJECT_ROOT, c.request.file_path>> \notin files
      [] c.handler = "get_template_content" ->
            <<PROJECT_ROOT, "templates", c.request.template_name>> \notin files
      [] c.handler = "quality_check" ->
            c.file_path \notin {"", "malformed"} /\ <<PROJECT_ROOT, c.file_path>> \notin files
      [] c.handler = "delete_project" ->
            ~c.success /\ <<PROJECT_ROOT, c.project_path>> \notin files
      [] OTHER -> FALSE

\* status and success of an answered request agree with what went wrong
StatusAsClaimed(c) ==
    /\ c.status \in {200, 400, 404, 500}
    /\ c.raised => (c.status = 500 /\ ~c.success)
    /\ c.status # 200 => ~c.success
    /\ (~c.raised /\ FieldMissing(c)) => c.status = 400
    /\ (~c.raised /\ ~FieldMissing(c) /\ ResourceMissing(c)) => c.status = 404

\* the same for an answered compile request
CompileAsClaimed(r) ==
    (pc[r] = "done" /\ entry[r] = "api") =>
        /\ http[r].status \in {200, 400, 404, 500}
        /\ http[r].raised => (http[r].status = 500 /\ ~http[r].success)
        /\ http[r].status # 200 => ~http[r].success
        /\ (~http[r].raised /\ data[r].file_path = "") => http[r].status = 400
        /\ (~http[r].raised /\ data[r].file_path # ""
               /\ <<PROJECT_ROOT, data[r].file_path>> \notin files) => http[r].status = 404

ConcurrentBodies ==
    {d \in Bodies : d.file_path = "main.tex" /\ ~d.watch /\ d.compiler = "lualatex"
                   /\ d.quick /\ ~d.use_bibtex}

InitConcurrent == InitWith({1, 2}) /\ PROJECT_ROOT = "/host"

NextConcurrent ==
    \E r \in Req :
        \/ compile_document_from(r, ConcurrentBodies)
        \/ run_command(r)
        \/ Launch(r)
        \/ ChildExit(r)
        \/ Timeout(r)
        \/ PdfCheck(r)
        \/ Respond(r)

SpecConcurrent == InitConcurrent /\ [][NextConcurrent]_vars

\* the outcome of request r comes from the final artifact check
FinalChecked(r) ==
    /\ Accepted(r) /\ Returned(r)
    /\ Len(trace[r]) >= 1 /\ AllExited(r) /\ trace[r][1].rc = 0

\* some compiler pass of request r left the artifact on disk
PassLeftPdf(r) == \E i \in 1..Len(trace[r]) : trace[r][i].prog = "compiler" /\ trace[r][i].pdf_after

\* ----------------------------------------------------------------- C21
\* C21: compile requests for the same file run with no mutual exclusion on
\* the shared output directory: the final artifact check of a request reads
\* the disk as it is at that moment, whichever request's pass wrote it, and
\* the check is taken wherever the other request stands in its own sequence.
C21_FinalCheckReadsSharedDisk ==
    [][\A r \in Req :
          (pc[r] = "pdf_check" /\ pc'[r] # "pdf_check")
             => /\ outcome'[r].success = (PdfFile(loc[r].tex_file) \in files)
                /\ \A s \in Req \ {r} : pc'[s] = pc[s]]_vars

\* request r is reported as succeeded although none of its own passes left
\* the artifact: the artifact its final check saw was written by a pass of
\* the other request, which ran between r's last pass and r's check
C21_Witness ==
    \E r \in Req, s \in Req :
        /\ r # s
        /\ loc[r].tex_file = loc[s].tex_file
        /\ FinalChecked(r) /\ outcome[r].success
        /\ ~PassLeftPdf(r)
        /\ PassLeftPdf(s)


\* ======================================================== aggregation
\* the steps of request r that ran to their exit, in execution order
ExitedSteps(r) == SelectSeq(trace[r], LAMBDA e : e.status = "exited")

\* the line ends with the text out (a step's output, possibly prefixed)
Carries(line, out) ==
    /\ Len(line) >= Len(out)
    /\ SubSeq(line, Len(line) - Len(out) + 1, Len(line)) = out

\* the lines of text that carry out
Where(text, out) == {k \in 1..Len(SplitLines(text)) : Carries(SplitLines(text)[k], out)}

\* every text of outs is carried by a line of text, in the order of outs
InOrder(text, outs) ==
    /\ \A i \in 1..Len(outs) : Where(text, outs[i]) # {}
    /\ \A i \in 1..Len(outs), j \in 1..Len(outs) :
          i < j => \E k \in Where(text, outs[i]), m \in Where(text, outs[j]) : k < m

\* ----------------------------------------------------------------- C22
\* C22: whenever the dispatcher returns the outcome of an accepted compile
\* request, the outcome's stdout carries, one line per step and in
\* execution order, the output of every step that ran, and its stderr
\* carries every stderr text the steps produced, in order; this for every
\* way the sequence ends, a step that raises after earlier steps included.
C22_OutputsAggregated ==
    \A r \in Req :
        (Accepted(r) /\ Returned(r))
            => /\ InOrder(outcome[r].stdout,
                          [i \in 1..Len(ExitedSteps(r)) |-> StdoutOf(ExitedSteps(r)[i].step)])
               /\ InOrder(outcome[r].stderr, loc[r].stderr_lines)


\* ========================================================= pass counts
\* the pass sequence of request r ran to the final check
Completed(r) ==
    /\ Accepted(r) /\ Returned(r)
    /\ Len(trace[r]) >= 1 /\ AllExited(r) /\ trace[r][1].rc = 0

\* step was invoked for request r
Invoked(r, step) == \E i \in 1..Len(trace[r]) : trace[r][i].step = step

\* no step of request r was invoked twice
NoRetry(r) ==
    \A i \in 1..Len(trace[r]), j \in 1..Len(trace[r]) :
        trace[r][i].step = trace[r][j].step => i = j

\* the extra compiler pass follows the bibliography pass, and the passes
\* add up: 1 + bibliography + step 5
PassesAddUp(r) ==
    /\ \A i \in 1..Len(trace[r]) :
          trace[r][i].prog = "bibtex" => (Len(trace[r]) > i /\ trace[r][i + 1].step = "pass2")
    /\ CompilerPasses(r) = 1 + BibtexPasses(r) + (IF Invoked(r, "pass3") THEN 1 ELSE 0)
    /\ CompilerPasses(r) <= 3

\* ----------------------------------------------------------------- C23
\* C23 (as stated): in a sequence that ran to the final check, the extra
\* compiler pass follows the bibliography pass also in quick mode, and the
\* step-5 compiler pass is skipped exactly when quick is set and no
\* bibliography pass occurred; the compiler passes number 1 + bibliography
\* + step 5, at most 3, and no step is invoked twice.
C23_SkippedWithoutBibliography ==
    \A r \in Req :
        /\ Accepted(r) => (NoRetry(r) /\ CompilerPasses(r) <= 3)
        /\ Completed(r)
              => /\ PassesAddUp(r)
                 /\ ~Invoked(r, "pass3") <=> (loc[r].quick /\ BibtexPasses(r) = 0)

\* C23 (amended): the same, with the step-5 compiler pass skipped exactly
\* when quick is set, whether or not a bibliography pass occurred.
C23_SkippedWhenQuick ==
    \A r \in Req :
        /\ Accepted(r) => (NoRetry(r) /\ CompilerPasses(r) <= 3)
        /\ Completed(r)
              => /\ PassesAddUp(r)
                 /\ ~Invoked(r, "pass3") <=> loc[r].quick

\* a quick request with a bibliography pass: two compiler passes, no step 5
C23_Witness ==
    \E r \in Req :
        /\ Completed(r) /\ loc[r].quick
        /\ BibtexPasses(r) = 1
        /\ CompilerPasses(r) = 2
        /\ ~Invoked(r, "pass3")


\* ----------------------------------------------------------------- C24
\* C24: every outcome record run_command returns, on the generic path and
\* on every exit of the compile path (no file path, file not found, pass-1
\* abort, final check, timeout, exception), has success true if and only if
\* its returncode is 0.
C24_SuccessIffReturncodeZero ==
    \A r \in Req :
        Returned(r) => (outcome[r].success <=> outcome[r].returncode = 0)

\* every pass exited 0 and the artifact is missing at the final check: the
\* dispatcher reports failure with a return code of its own
C24_Witness ==
    \E r \in Req :
        /\ Completed(r)
        /\ \A i \in 1..Len(trace[r]) : trace[r][i].rc = 0
        /\ ~Exists(PdfFile(loc[r].tex_file))
        /\ ~outcome[r].success /\ outcome[r].returncode = 1


\* ====================================================== stale artifacts
\* the outcome of a compile command is succeeded exactly when pass 1 exited
\* 0, no step raised and the artifact is on disk
SucceededExactly ==
    \A r \in Req :
        (Returned(r) /\ IsCompileScript(cmd[r]))
            => (outcome[r].success <=> (Completed(r) /\ PdfFile(loc[r].tex_file) \in files))

\* a file disappears only as the effect of a compiler process that ends
RemovedOnlyByCompiler ==
    \A p \in files \ files' :
        \E r \in Req :
            /\ child[r].running /\ ~child'[r].running
            /\ Program(child[r].step) = "compiler"
            /\ p \in Artifacts(loc[r].tex_file)

\* ----------------------------------------------------------------- C25
\* C25: after every step, a returned compile outcome has success true
\* exactly when pass 1 exited 0, no later step raised and the artifact is
\* on disk at the final check; and no step of the dispatcher or of the
\* handler removes a file: an artifact disappears only when a compiler
\* process removes it. An artifact of an earlier compile therefore
\* satisfies the final check of a later one.
C25_SuccessByArtifactKept ==
    [][SucceededExactly' /\ RemovedOnlyByCompiler]_vars

\* the second compile is reported as succeeded on the artifact of the first:
\* the artifact was on disk before pass 1 of the second compile and before
\* and after each of its passes
C25_Witness ==
    \E r \in Req :
        /\ served = 2
        /\ Completed(r) /\ outcome[r].success
        /\ \A i \in 1..Len(trace[r]) : trace[r][i].pdf_before /\ trace[r][i].pdf_after


\* ================================================= the compile response
\* compile_document answered request r after run_command returned
Responded(r) == pc[r] = "done" /\ entry[r] = "api" /\ Returned(r) /\ ~http[r].raised

\* the entries of the error list that come from the log
LogEntries(r) ==
    LET lines == http[r].log_info.error_lines
    IN  [i \in 1..(IF Len(lines) < 3 THEN Len(lines) ELSE 3) |-> <<"LOG: ">> \o lines[i]]

\* the entry of the error list that comes from stderr, if any
StderrEntries(r) ==
    IF outcome[r].stderr = << >> THEN << >> ELSE <<(<<"STDERR: ">> \o outcome[r].stderr)>>

\* ----------------------------------------------------------------- C26
\* C26: in every compile response made after the dispatcher returned, the
\* envelope's success is the outcome's success; errors is absent when
\* success is true; when success is false it is the STDERR entry (if stderr
\* is not empty) followed by the first three scraped log lines in order, or
\* the single entry "Compilation failed with unknown error" when there is
\* neither; and log lines are scraped only when the compile failed and the
\* log file exists.
C26_ErrorsOfResponse ==
    \A r \in Req :
        Responded(r) =>
            /\ http[r].status = 200
            /\ http[r].success = outcome[r].success
            /\ http[r].success => ~http[r].errors.present
            /\ ~http[r].success =>
                  /\ http[r].errors.present /\ http[r].errors.list # << >>
                  /\ http[r].errors.list =
                        (IF StderrEntries(r) \o LogEntries(r) = << >>
                            THEN <<(<<"Compilation failed with unknown error">>)>>
                            ELSE StderrEntries(r) \o LogEntries(r))
            /\ http[r].log_info.set =>
                  /\ ~outcome[r].success
                  /\ Exists(LogFile(UnderRoot(data[r].file_path)))
                  /\ \A i \in 1..Len(http[r].log_info.error_lines) :
                        Matches(http[r].log_info.error_lines[i])

\* a failed compile with stderr text and a log with more than three
\* matching lines: one STDERR entry and three LOG entries
C26_Witness ==
    \E r \in Req :
        /\ Responded(r) /\ ~http[r].success
        /\ outcome[r].stderr # << >>
        /\ Len(http[r].log_info.error_lines) > 3
        /\ Len(http[r].errors.list) = 4


\* ====================================================== create_project
\* a project that exists already, with a file create_project does not write
CourseProject(root) ==
    Ancestors(<<root, "courses", "2024", "math", "hw1">>)
    \cup {<<root, "courses", "2024", "math", "hw1", "main.tex">>,
          <<root, "courses", "2024", "math", "hw1", "sections">>,
          <<root, "courses", "2024", "math", "hw1", "sections", "intro.tex">>}

InitCreate ==
    /\ PROJECT_ROOT = "/host"
    /\ \E present \in BOOLEAN :
          files = {<<PROJECT_ROOT>>, <<PROJECT_ROOT, "main.tex">>,
                   <<PROJECT_ROOT, "templates">>, <<PROJECT_ROOT, "templates", "report-basic.tex">>}
                  \cup (IF present THEN CourseProject(PROJECT_ROOT) ELSE {})
    /\ pc = [r \in Req |-> "off"]
    /\ entry = [r \in Req |-> "api"]
    /\ data = [r \in Req |-> NoData]
    /\ cmd = [r \in Req |-> << >>]
    /\ loc = [r \in Req |-> NoLoc]
    /\ child = [r \in Req |-> NoChild]
    /\ trace = [r \in Req |-> << >>]
    /\ outcome = [r \in Req |-> NoOutcome]
    /\ http = [r \in Req |-> NoHttp]
    /\ served = 0
    /\ call = NoCall

NextCreate == create_project \/ send_response

SpecCreate == InitCreate /\ [][NextCreate]_vars


\* the request names all of semester, course and report_name
AllFields(request) ==
    /\ request.kind = "json"
    /\ request.semester # "" /\ request.course # "" /\ request.report_name # ""

\* COURSES_DIR / semester / course / report_name of a request
ProjectPath(request) ==
    <<PROJECT_ROOT, "courses", request.semester, request.course, request.report_name>>

\* ----------------------------------------------------------------- C27
\* C27: a step of create_project never answers with a conflict. For a
\* request that names semester, course and report_name and whose project
\* directory exists already, it answers 200 with success unless a
\* filesystem call raises; main.tex, README.md and .gitignore then hold the
\* freshly generated contents, whatever they held before, every other file
\* below the courses directory is still there with the contents it had, and
\* no file is removed. A request that is empty or lacks one of the three
\* fields is answered 400 and changes neither the files nor their contents.
C27_RecreateRewrites ==
    [][(call = NoCall /\ call' # NoCall /\ call'.handler = "create_project")
          => LET c == call'
                 P == ProjectPath(c.request)
             IN  /\ c.status \in {200, 400, 500}
                 /\ c.raised <=> c.status = 500
                 /\ (~c.raised /\ ~AllFields(c.request))
                       => (c.status = 400 /\ ~c.success /\ files' = files /\ c.after = c.before)
                 /\ (~c.raised /\ AllFields(c.request))
                       => /\ c.status = 200 /\ c.success
                          /\ files \subseteq files'
                          /\ \A f \in {"main.tex", "README.md", ".gitignore"} :
                                /\ Join(P, f) \in files'
                                /\ c.after[Join(P, f)] \in
                                      {"base template", "readme", "gitignore",
                                       "copy of report-basic.tex"}
                          /\ \A q \in DOMAIN c.before :
                                (\A f \in {"main.tex", "README.md", ".gitignore"} : q # Join(P, f))
                                   => c.after[q] = c.before[q]]_vars

\* create_project answered 200 for a project that existed: its edited
\* main.tex is replaced and sections/intro.tex is as it was
C27_Witness ==
    /\ call # NoCall /\ call.handler = "create_project"
    /\ call.status = 200 /\ call.success
    /\ Join(ProjectPath(call.request), "main.tex") \in DOMAIN call.before
    /\ call.before[Join(ProjectPath(call.request), "main.tex")] = "edited"
    /\ call.after[Join(ProjectPath(call.request), "main.tex")] = "base template"
    /\ <<PROJECT_ROOT, "courses", "2024", "math", "hw1", "sections", "intro.tex">> \in DOMAIN call.before
    /\ call.after[<<PROJECT_ROOT, "courses", "2024", "math", "hw1", "sections", "intro.tex">>] = "edited"

============================================================================
